---- MODULE Spec2Model ----
(***************************************************************************)
(* The retirement calculator of src/components/RetirementCalculator.tsx:   *)
(* the form state of the RetirementCalculator component, its Calculate     *)
(* handler (calculateRetirement) and the projection functions it calls.    *)
(*                                                                         *)
(* JavaScript numbers are modelled as decimal floating point numbers with  *)
(* an 8-digit mantissa, with NaN and the two infinities and the IEEE rules *)
(* for them.  Text fields are sequences of characters, parsed as parseInt  *)
(* and parseFloat parse them.                                              *)
(***************************************************************************)
EXTENDS Integers, Sequences, FiniteSets, TLC

\* ------------------------------------------------------------------------
\* Numbers.  A finite number is m * 10^e with 10^7 <= |m| < 10^8, or zero
\* (m = 0, e = 0).  Magnitudes of 10^308 and more are infinite, as a double's.
\* ------------------------------------------------------------------------
NaN == [k |-> "nan", m |-> 0, e |-> 0]
PInf == [k |-> "inf", m |-> 1, e |-> 0]
NInf == [k |-> "inf", m |-> -1, e |-> 0]
Zero == [k |-> "fin", m |-> 0, e |-> 0]

Abs(n) == IF n < 0 THEN -n ELSE n
Sgn(n) == IF n < 0 THEN -1 ELSE IF n > 0 THEN 1 ELSE 0
Inf(s) == IF s < 0 THEN NInf ELSE PInf

Pow10(d) == CASE d = 0 -> 1 [] d = 1 -> 10 [] d = 2 -> 100 [] d = 3 -> 1000
              [] d = 4 -> 10000 [] d = 5 -> 100000 [] d = 6 -> 1000000
              [] d = 7 -> 10000000 [] d = 8 -> 100000000 [] OTHER -> 1000000000

\* how many places a magnitude below 10^8 is shifted left to have 8 digits
Lead(a) == IF a >= 10000 THEN (IF a >= 1000000 THEN (IF a >= 10000000 THEN 0 ELSE 1)
                                ELSE (IF a >= 100000 THEN 2 ELSE 3))
           ELSE (IF a >= 100 THEN (IF a >= 1000 THEN 4 ELSE 5)
                 ELSE (IF a >= 10 THEN 6 ELSE 7))

\* overflow to an infinity, underflow to zero
Pack(m, e) == IF m = 0 \/ e < -330 THEN Zero
              ELSE IF e > 300 THEN Inf(m)
              ELSE [k |-> "fin", m |-> m, e |-> e]

\* a magnitude without its last d digits, rounded half up
Drop(a, d) == (a + Pow10(d) \div 2) \div Pow10(d)

\* the number m * 10^e for any integer m
Norm(m, e) ==
  LET a == Abs(m)
      s == Sgn(m)
  IN IF a = 0 THEN Zero
     ELSE IF a >= 1000000000 THEN
       LET r == Drop(a, 2) IN
       IF r >= 100000000 THEN Pack(s * (r \div 10), e + 3) ELSE Pack(s * r, e + 2)
     ELSE IF a >= 100000000 THEN
       LET r == Drop(a, 1) IN
       IF r >= 100000000 THEN Pack(s * (r \div 10), e + 2) ELSE Pack(s * r, e + 1)
     ELSE LET d == Lead(a) IN Pack(s * a * Pow10(d), e - d)

Num(n) == Norm(n, 0)

isNaN(x) == x.k = "nan"
isFinite(x) == x.k = "fin"

FNeg(x) == IF x.k = "nan" THEN x ELSE [x EXCEPT !.m = -x.m]

\* a mantissa moved to exponent e - 1 when it sits d places below e
Align(m, d) == IF d = 0 THEN m * 10 ELSE Sgn(m) * Drop(Abs(m), d - 1)

FAdd(x, y) ==
  IF x.k = "fin" /\ y.k = "fin" THEN
    IF x.m = 0 THEN y
    ELSE IF y.m = 0 THEN x
    ELSE IF x.e >= y.e THEN
      (IF x.e - y.e > 9 THEN x ELSE Norm(x.m * 10 + Align(y.m, x.e - y.e), x.e - 1))
    ELSE
      (IF y.e - x.e > 9 THEN y ELSE Norm(y.m * 10 + Align(x.m, y.e - x.e), y.e - 1))
  ELSE IF x.k = "nan" \/ y.k = "nan" THEN NaN
  ELSE IF x.k = "inf" /\ y.k = "inf" THEN (IF x.m = y.m THEN x ELSE NaN)
  ELSE IF x.k = "inf" THEN x
  ELSE y

FSub(x, y) == FAdd(x, FNeg(y))

FMul(x, y) ==
  IF x.k = "fin" /\ y.k = "fin" THEN
    IF x.m = 0 \/ y.m = 0 THEN Zero
    ELSE LET ax == Abs(x.m)
             ay == Abs(y.m)
             a == ax \div 10000
             b == ax % 10000
             c == ay \div 10000
             d == ay % 10000
             mid == a * d + b * c + (b * d) \div 10000
             hi == a * c
             s == Sgn(x.m) * Sgn(y.m)
         IN  \* |x.m * y.m| = hi * 10^8 + mid * 10^4 + (b * d) % 10^4
             IF hi + mid \div 10000 >= 10000000
             THEN Norm(s * (hi + (mid + 5000) \div 10000), x.e + y.e + 8)
             ELSE Norm(s * (hi * 10 + (mid + 500) \div 1000), x.e + y.e + 7)
  ELSE IF x.k = "nan" \/ y.k = "nan" THEN NaN
  ELSE IF (x.k = "fin" /\ x.m = 0) \/ (y.k = "fin" /\ y.m = 0) THEN NaN
  ELSE Inf(Sgn(x.m) * Sgn(y.m))

\* long division of magnitudes: n more digits of the quotient q, remainder r
RECURSIVE LongDiv(_, _, _, _)
LongDiv(q, r, b, n) ==
  IF n = 0 THEN (IF 2 * r >= b THEN q + 1 ELSE q)
  ELSE LongDiv(q * 10 + (r * 10) \div b, (r * 10) % b, b, n - 1)

FDiv(x, y) ==
  IF x.k = "fin" /\ y.k = "fin" THEN
    IF y.m = 0 THEN (IF x.m = 0 THEN NaN ELSE Inf(x.m))
    ELSE IF x.m = 0 THEN Zero
    ELSE LET ax == Abs(x.m)
             ay == Abs(y.m)
             s == Sgn(x.m) * Sgn(y.m)
         IN Norm(s * LongDiv(ax \div ay, ax % ay, ay, 8), x.e - y.e - 8)
  ELSE IF x.k = "nan" \/ y.k = "nan" THEN NaN
  ELSE IF x.k = "inf" /\ y.k = "inf" THEN NaN
  ELSE IF x.k = "inf" THEN Inf(x.m * (IF y.m < 0 THEN -1 ELSE 1))
  ELSE Zero

\* the sign of x - y: -1, 0 or 1 (numbers that are not NaN)
Cmp(x, y) ==
  IF x.k = "inf" \/ y.k = "inf" THEN
    (IF x.k = "inf" /\ y.k = "inf" THEN Sgn(x.m - y.m)
     ELSE IF x.k = "inf" THEN x.m ELSE -y.m)
  ELSE IF Sgn(x.m) # Sgn(y.m) THEN Sgn(Sgn(x.m) - Sgn(y.m))
  ELSE IF x.m = 0 THEN 0
  ELSE IF x.e # y.e THEN (IF x.e > y.e THEN Sgn(x.m) ELSE -Sgn(x.m))
  ELSE Sgn(x.m - y.m)

\* the comparisons of JavaScript: false when either side is NaN
FLt(x, y) == x.k # "nan" /\ y.k # "nan" /\ Cmp(x, y) < 0
FLe(x, y) == x.k # "nan" /\ y.k # "nan" /\ Cmp(x, y) <= 0
FGt(x, y) == FLt(y, x)
FGe(x, y) == FLe(y, x)

\* Math.abs, Math.max, Math.pow with an integer exponent
FAbs(x) == IF x.k = "nan" THEN x ELSE [x EXCEPT !.m = Abs(x.m)]
FMax(x, y) == IF x.k = "nan" \/ y.k = "nan" THEN NaN ELSE IF FLt(x, y) THEN y ELSE x

RECURSIVE FPowN(_, _)
FPowN(x, n) == IF n = 0 THEN Num(1)
               ELSE IF n = 1 THEN x
               ELSE LET h == FPowN(x, n \div 2) IN
                    IF n % 2 = 0 THEN FMul(h, h) ELSE FMul(FMul(h, h), x)
FPow(x, n) == IF n >= 0 THEN FPowN(x, n) ELSE FDiv(Num(1), FPowN(x, -n))

\* a value used as a condition (0 and NaN are falsy), and `x || 0`
Truthy(x) == ~(x.k = "nan" \/ (x.k = "fin" /\ x.m = 0))
OrZero(x) == IF Truthy(x) THEN x ELSE Zero

\* the integer an integer-valued number below 10^8 stands for
IntOf(x) == IF x.e >= 0 THEN x.m * Pow10(x.e) ELSE x.m \div Pow10(-x.e)

\* ------------------------------------------------------------------------
\* Text.  A field's text is a sequence of characters.
\* ------------------------------------------------------------------------
Digits == {"0", "1", "2", "3", "4", "5", "6", "7", "8", "9"}
DigitVal(c) == CASE c = "0" -> 0 [] c = "1" -> 1 [] c = "2" -> 2 [] c = "3" -> 3
                 [] c = "4" -> 4 [] c = "5" -> 5 [] c = "6" -> 6 [] c = "7" -> 7
                 [] c = "8" -> 8 [] OTHER -> 9

\* the length of the run of digits of s that starts at position i
RECURSIVE DigitRun(_, _)
DigitRun(s, i) == IF i <= Len(s) /\ s[i] \in Digits THEN 1 + DigitRun(s, i + 1) ELSE 0

\* the value of the n digits of s that start at position i
RECURSIVE DigitsValue(_, _, _)
DigitsValue(s, i, n) ==
  IF n = 0 THEN 0 ELSE DigitsValue(s, i, n - 1) * 10 + DigitVal(s[i + n - 1])

\* parseInt: an optional sign and the leading digits; NaN without a digit
parseInt(s) ==
  LET neg == Len(s) > 0 /\ s[1] = "-"
      from == IF neg THEN 2 ELSE 1
      n == DigitRun(s, from)
  IN IF n = 0 THEN NaN
     ELSE Num((IF neg THEN -1 ELSE 1) * DigitsValue(s, from, n))

\* parseFloat: an optional sign, digits, and a fraction after a point
parseFloat(s) ==
  LET neg == Len(s) > 0 /\ s[1] = "-"
      from == IF neg THEN 2 ELSE 1
      n == DigitRun(s, from)
      point == from + n <= Len(s) /\ s[from + n] = "."
      f == IF point THEN DigitRun(s, from + n + 1) ELSE 0
  IN IF n + f = 0 THEN NaN
     ELSE Norm((IF neg THEN -1 ELSE 1)
                 * (DigitsValue(s, from, n) * Pow10(f) + DigitsValue(s, from + n + 1, f)),
               -f)

\* Math.floor of a number that is finite and not negative
floor(x) == IntOf(x)

\* ------------------------------------------------------------------------
\* Constants of the calculator
\* ------------------------------------------------------------------------
investmentVehicles == <<
  [name |-> "Very Low Risk", returnRate |-> Num(4), riskLevel |-> "Very Low Risk", volatility |-> Num(0)],
  [name |-> "Low Risk", returnRate |-> Norm(75, -1), riskLevel |-> "Low Risk", volatility |-> Num(0)],
  [name |-> "Moderate Risk", returnRate |-> Num(12), riskLevel |-> "Moderate Risk", volatility |-> Num(15)],
  [name |-> "High Risk", returnRate |-> Num(18), riskLevel |-> "High Risk", volatility |-> Num(25)],
  [name |-> "Very High Risk", returnRate |-> Num(22), riskLevel |-> "Very High Risk", volatility |-> Num(35)] >>

\* investmentVehicles[n] for the number n (the array is indexed from 0)
vehicleAt(n) == investmentVehicles[IntOf(n) + 1]

retirementDuration == 40
inflationRate == Norm(3, -2)
maxIterations == 100
\* the number of simulated paths (1000 in the code, scaled down)
numSimulations == 10

null == [null |-> TRUE]
undefined == <<>>

\* ------------------------------------------------------------------------
\* calculateRetirement: the target corpus
\* ------------------------------------------------------------------------
\* fault: the retirement income is not carried forward by inflation
futureRetirementIncomeOf_notInflated(income, annualSalaryGrowth, replacementRatio, yearsUntilRetirement) ==
  FMul(FMul(income, FPow(FAdd(Num(1), annualSalaryGrowth), yearsUntilRetirement)), replacementRatio)

futureRetirementIncomeOf(income, annualSalaryGrowth, replacementRatio, yearsUntilRetirement) ==
  LET futureIncome == FMul(income, FPow(FAdd(Num(1), annualSalaryGrowth), yearsUntilRetirement))
      annualRetirementIncome == FMul(futureIncome, replacementRatio)
  IN FMul(annualRetirementIncome, FPow(FAdd(Num(1), inflationRate), yearsUntilRetirement))

targetRetirementCorpusOf(futureRetirementIncome, withdrawalRate) ==
  FDiv(futureRetirementIncome, withdrawalRate)

\* the annuity factor at the nominal return, inflation not taken off
pvFactorOf_nominal(returnRate) ==
  FDiv(FSub(Num(1), FPow(FAdd(Num(1), FDiv(returnRate, Num(100))), -retirementDuration)),
       FDiv(returnRate, Num(100)))

pvFactorOf(returnRate) ==
  LET realReturnInRetirement == FSub(FDiv(returnRate, Num(100)), inflationRate)
  IN IF FGt(realReturnInRetirement, Zero)
     THEN FDiv(FSub(Num(1), FPow(FAdd(Num(1), realReturnInRetirement), -retirementDuration)),
               realReturnInRetirement)
     ELSE Num(retirementDuration)

targetCorpusAnnuityOf(futureRetirementIncome, returnRate) ==
  FMul(futureRetirementIncome, pvFactorOf(returnRate))

\* the corpus without the annuity cross-check
finalTargetCorpusOf_swrOnly(futureRetirementIncome, withdrawalRate, returnRate) ==
  targetRetirementCorpusOf(futureRetirementIncome, withdrawalRate)

finalTargetCorpusOf(futureRetirementIncome, withdrawalRate, returnRate) ==
  FMax(targetRetirementCorpusOf(futureRetirementIncome, withdrawalRate),
       targetCorpusAnnuityOf(futureRetirementIncome, returnRate))

\* ------------------------------------------------------------------------
\* calculateRetirement: the contribution solver
\* ------------------------------------------------------------------------
\* the inner loop, for i from lo to hi, on the running testTotalValue
RECURSIVE testTotalValueOf(_, _, _, _, _, _)
testTotalValueOf(lo, hi, testAnnualInvestment, annualSalaryGrowth, returnRate, testTotalValue) ==
  IF lo > hi THEN testTotalValue
  ELSE IF lo = hi THEN
    LET yearContribution == FMul(testAnnualInvestment, FPow(FAdd(Num(1), annualSalaryGrowth), lo - 1))
    IN FMul(FAdd(testTotalValue, yearContribution), FAdd(Num(1), FDiv(returnRate, Num(100))))
  ELSE LET mid == (lo + hi) \div 2
           t == testTotalValueOf(lo, mid, testAnnualInvestment, annualSalaryGrowth, returnRate, testTotalValue)
       IN IF isNaN(t) THEN t  \* NaN stays NaN in the remaining years
          ELSE testTotalValueOf(mid + 1, hi, testAnnualInvestment, annualSalaryGrowth, returnRate, t)

\* fault: the loop breaks a hundred times further from the target
withinTolerance_loose(difference) == FLt(FAbs(difference), Num(100000))

\* whether the loop leaves through its break: |difference| < 1000
withinTolerance(difference) == FLt(FAbs(difference), Num(1000))

\* a turn that adjusts the guess even within the tolerance
solverAdjust_noBreak(s, p, difference) ==
  [testAnnualInvestment |->
     FAdd(s.testAnnualInvestment, FDiv(FDiv(difference, Num(p.yearsUntilRetirement)), Num(10))),
   iterations |-> s.iterations + 1,
   broke |-> FALSE]

\* the end of a turn of the while loop, from the difference on
solverAdjust(s, p, difference) ==
  IF withinTolerance(difference) THEN [s EXCEPT !.broke = TRUE]
  ELSE [testAnnualInvestment |->
          FAdd(s.testAnnualInvestment, FDiv(FDiv(difference, Num(p.yearsUntilRetirement)), Num(10))),
        iterations |-> s.iterations + 1,
        broke |-> FALSE]

\* one turn of the while loop; s.broke records the break
solverStep(s, p) ==
  IF s.broke \/ ~(s.iterations < maxIterations) THEN s
  ELSE solverAdjust(s, p,
                    FSub(p.finalTargetCorpus,
                         testTotalValueOf(1, p.yearsUntilRetirement, s.testAnnualInvestment,
                                          p.annualSalaryGrowth, p.returnRate, Zero)))

\* n turns of the while loop
RECURSIVE solverLoop(_, _, _)
solverLoop(s, n, p) ==
  IF n = 0 THEN s
  ELSE IF n = 1 THEN solverStep(s, p)
  ELSE LET h == solverLoop(s, n \div 2, p) IN
       IF h.broke THEN h ELSE solverLoop(h, n - n \div 2, p)

\* the solver: its last guess, the iterations it made, whether it broke out
solveContribution(finalTargetCorpus, yearsUntilRetirement, annualSalaryGrowth, returnRate) ==
  solverLoop([testAnnualInvestment |->
                FDiv(FDiv(finalTargetCorpus, Num(yearsUntilRetirement)), Norm(15, -1)),
              iterations |-> 0,
              broke |-> FALSE],
             maxIterations,
             [finalTargetCorpus |-> finalTargetCorpus, yearsUntilRetirement |-> yearsUntilRetirement,
              annualSalaryGrowth |-> annualSalaryGrowth, returnRate |-> returnRate])

\* ------------------------------------------------------------------------
\* calculateRetirement: yearlyProjections
\* ------------------------------------------------------------------------
\* the row pushed for year i, and the running sums after it
\* the row pushed with the whole value as investment returns
yearlyPush_grossReturns(s, p, i, yearContribution, cumulativeContribution, totalValue) ==
  [i |-> i + 1,
   cumulativeContribution |-> cumulativeContribution,
   totalValue |-> totalValue,
   rows |-> Append(s.rows,
                   [year |-> p.fullYear + i,
                    age |-> p.age + i,
                    annualContribution |-> IF i = 0 THEN Zero ELSE yearContribution,
                    cumulativeContribution |-> cumulativeContribution,
                    investmentReturns |-> totalValue,
                    totalValue |-> totalValue])]

yearlyPush(s, p, i, yearContribution, cumulativeContribution, totalValue) ==
  [i |-> i + 1,
   cumulativeContribution |-> cumulativeContribution,
   totalValue |-> totalValue,
   rows |-> Append(s.rows,
                   [year |-> p.fullYear + i,
                    age |-> p.age + i,
                    annualContribution |-> IF i = 0 THEN Zero ELSE yearContribution,
                    cumulativeContribution |-> cumulativeContribution,
                    investmentReturns |-> FSub(totalValue, cumulativeContribution),
                    totalValue |-> totalValue])]

\* the running sums of year i, given the year's contribution
yearlyAdd(s, p, i, yearContribution) ==
  yearlyPush(s, p, i, yearContribution,
             IF i > 0 THEN FAdd(s.cumulativeContribution, yearContribution)
             ELSE s.cumulativeContribution,
             IF i > 0 THEN FMul(FAdd(s.totalValue, yearContribution),
                                FAdd(Num(1), FDiv(p.returnRate, Num(100))))
             ELSE s.totalValue)

\* one turn of the loop, for i = s.i
yearlyStep(s, p) ==
  IF ~(s.i <= p.yearsUntilRetirement) THEN s
  ELSE yearlyAdd(s, p, s.i,
                 FMul(p.annualInvestment, FPow(FAdd(Num(1), p.annualSalaryGrowth), s.i - 1)))

RECURSIVE yearlyLoop(_, _, _)
yearlyLoop(s, n, p) ==
  IF n = 0 THEN s
  ELSE IF n = 1 THEN yearlyStep(s, p)
  ELSE LET h == yearlyLoop(s, n \div 2, p) IN
       IF h.i <= p.yearsUntilRetirement THEN yearlyLoop(h, n - n \div 2, p) ELSE h

yearlyProjectionsOf(annualInvestment, yearsUntilRetirement, annualSalaryGrowth, returnRate, age, fullYear) ==
  yearlyLoop([i |-> 0, cumulativeContribution |-> Zero, totalValue |-> Zero, rows |-> <<>>],
             yearsUntilRetirement + 1,
             [annualInvestment |-> annualInvestment, yearsUntilRetirement |-> yearsUntilRetirement,
              annualSalaryGrowth |-> annualSalaryGrowth, returnRate |-> returnRate,
              age |-> age, fullYear |-> fullYear]).rows

\* ------------------------------------------------------------------------
\* calculateRetirement: postRetirementProjections
\* ------------------------------------------------------------------------
\* the row pushed for year i
\* the row pushed with the balance as it is, below 0 or not
postPush_unfloored(s, p, i, withdrawal, portfolioValue) ==
  [i |-> i + 1,
   portfolioValue |-> portfolioValue,
   rows |-> Append(s.rows,
                   [year |-> p.fullYear + p.yearsUntilRetirement + i,
                    age |-> p.retAge + i,
                    withdrawal |-> withdrawal,
                    portfolioValue |-> portfolioValue])]

postPush(s, p, i, withdrawal, portfolioValue) ==
  [i |-> i + 1,
   portfolioValue |-> portfolioValue,
   rows |-> Append(s.rows,
                   [year |-> p.fullYear + p.yearsUntilRetirement + i,
                    age |-> p.retAge + i,
                    withdrawal |-> withdrawal,
                    portfolioValue |-> FMax(Zero, portfolioValue)])]

\* the portfolio grown by the factor returnRate / 100 - 1, its terms reversed
postWithdraw_factorReversed(s, p, i, withdrawal) ==
  postPush(s, p, i, withdrawal,
           IF i > 0 THEN FMul(FSub(s.portfolioValue, withdrawal),
                              FSub(FDiv(p.returnRate, Num(100)), Num(1)))
           ELSE s.portfolioValue)

\* the portfolio of year i, given the year's withdrawal
postWithdraw(s, p, i, withdrawal) ==
  postPush(s, p, i, withdrawal,
           IF i > 0 THEN FMul(FSub(s.portfolioValue, withdrawal),
                              FAdd(Num(1), FDiv(p.returnRate, Num(100))))
           ELSE s.portfolioValue)

\* one turn of the loop, for i = s.i
postStep(s, p) ==
  IF ~(s.i <= retirementDuration) THEN s
  ELSE postWithdraw(s, p, s.i,
                    IF s.i = 0 THEN Zero
                    ELSE FMul(p.futureRetirementIncome, FPow(FAdd(Num(1), inflationRate), s.i - 1)))

RECURSIVE postLoop(_, _, _)
postLoop(s, n, p) ==
  IF n = 0 THEN s
  ELSE IF n = 1 THEN postStep(s, p)
  ELSE LET h == postLoop(s, n \div 2, p) IN
       IF h.i <= retirementDuration THEN postLoop(h, n - n \div 2, p) ELSE h

postRetirementProjectionsOf(finalTargetCorpus, futureRetirementIncome, returnRate, yearsUntilRetirement, retAge, fullYear) ==
  postLoop([i |-> 0, portfolioValue |-> finalTargetCorpus, rows |-> <<>>],
           retirementDuration + 1,
           [futureRetirementIncome |-> futureRetirementIncome, returnRate |-> returnRate,
            yearsUntilRetirement |-> yearsUntilRetirement, retAge |-> retAge,
            fullYear |-> fullYear]).rows

\* ------------------------------------------------------------------------
\* Math.random and generateNormalRandom.  Math.random is a generator with a
\* hidden state: here a state s in 1..30 yields the number (2u + 1) / 32 for
\* u = randomValue(s), and moves on to randomNext(s).  Math.sqrt(-2 *
\* Math.log(x)) and Math.cos(2 * Math.PI * x) are tabulated for the numbers
\* x = (2u + 1) / 32, u in 0..15.
\* ------------------------------------------------------------------------
randomNext(s) == (3 * s) % 31

randomValue(s) == (s - 1) \div 2

sqrtMinus2Log == <<
  [k |-> "fin", m |-> 26327688, e |-> -7], [k |-> "fin", m |-> 21758325, e |-> -7],
  [k |-> "fin", m |-> 19268098, e |-> -7], [k |-> "fin", m |-> 17434596, e |-> -7],
  [k |-> "fin", m |-> 15928034, e |-> -7], [k |-> "fin", m |-> 14613970, e |-> -7],
  [k |-> "fin", m |-> 13422269, e |-> -7], [k |-> "fin", m |-> 12310042, e |-> -7],
  [k |-> "fin", m |-> 11247422, e |-> -7], [k |-> "fin", m |-> 10210748, e |-> -7],
  [k |-> "fin", m |-> 91783818, e |-> -8], [k |-> "fin", m |-> 81270128, e |-> -8],
  [k |-> "fin", m |-> 70265223, e |-> -8], [k |-> "fin", m |-> 58292201, e |-> -8],
  [k |-> "fin", m |-> 44371178, e |-> -8], [k |-> "fin", m |-> 25198690, e |-> -8] >>

cos2Pi == <<
  [k |-> "fin", m |-> 98078528, e |-> -8], [k |-> "fin", m |-> 83146961, e |-> -8],
  [k |-> "fin", m |-> 55557023, e |-> -8], [k |-> "fin", m |-> 19509032, e |-> -8],
  [k |-> "fin", m |-> -19509032, e |-> -8], [k |-> "fin", m |-> -55557023, e |-> -8],
  [k |-> "fin", m |-> -83146961, e |-> -8], [k |-> "fin", m |-> -98078528, e |-> -8],
  [k |-> "fin", m |-> -98078528, e |-> -8], [k |-> "fin", m |-> -83146961, e |-> -8],
  [k |-> "fin", m |-> -55557023, e |-> -8], [k |-> "fin", m |-> -19509032, e |-> -8],
  [k |-> "fin", m |-> 19509032, e |-> -8], [k |-> "fin", m |-> 55557023, e |-> -8],
  [k |-> "fin", m |-> 83146961, e |-> -8], [k |-> "fin", m |-> 98078528, e |-> -8] >>

\* the sample, and the state of Math.random after the two draws
generateNormalRandom(mean, stdDev, s) ==
  [value |-> FAdd(mean, FMul(FMul(sqrtMinus2Log[randomValue(s) + 1],
                                  cos2Pi[randomValue(randomNext(s)) + 1]),
                             stdDev)),
   rng |-> randomNext(randomNext(s))]

\* ------------------------------------------------------------------------
\* calculateSequenceRisk
\* ------------------------------------------------------------------------
\* returns[i] of generateSequence, for progress = i / years
\* the returns with the bear years of earlyBear at 1.5 times the volatility
\* below the base, whatever the type
sequenceReturn_deepBear(type, years, baseReturn, vol, i, progress) ==
  IF FLt(Num(i), FMul(Num(years), Norm(3, -1)))
  THEN FDiv(FSub(baseReturn, FMul(vol, Norm(15, -1))), Num(100))
  ELSE FDiv(FAdd(baseReturn, FMul(vol, Norm(4, -1))), Num(100))

\* the returns of earlyBear with the bear years in the first half, whatever
\* the type
sequenceReturn_bearHalf(type, years, baseReturn, vol, i, progress) ==
  IF FLt(Num(i), FMul(Num(years), Norm(5, -1)))
  THEN FDiv(FSub(baseReturn, FMul(vol, Norm(8, -1))), Num(100))
  ELSE FDiv(FAdd(baseReturn, FMul(vol, Norm(4, -1))), Num(100))

sequenceReturn(type, years, baseReturn, vol, i, progress) ==
  IF type = "bestCase" THEN
    FDiv(FAdd(baseReturn, FMul(FMul(vol, FSub(progress, Norm(5, -1))), Num(2))), Num(100))
  ELSE IF type = "worstCase" THEN
    FDiv(FSub(baseReturn, FMul(FMul(vol, FSub(progress, Norm(5, -1))), Num(2))), Num(100))
  ELSE IF type = "earlyBear" THEN
    (IF FLt(Num(i), FMul(Num(years), Norm(3, -1)))
     THEN FDiv(FSub(baseReturn, FMul(vol, Norm(8, -1))), Num(100))
     ELSE FDiv(FAdd(baseReturn, FMul(vol, Norm(4, -1))), Num(100)))
  ELSE FDiv(baseReturn, Num(100))

generateSequence(type, years, baseReturn, vol) ==
  [j \in 1..years |->
     sequenceReturn(type, years, baseReturn, vol, j - 1, FDiv(Num(j - 1), Num(years)))]

\* simulateFullCycle, accumulation phase: the push of a year's value
accumulationPush(s, portfolioValue) ==
  [year |-> s.year + 1,
   portfolioValue |-> portfolioValue,
   allValues |-> Append(s.allValues, portfolioValue)]

\* simulateFullCycle, accumulation phase: one turn of the loop
accumulationStep(s, p) ==
  IF ~(s.year < p.yearsUntilRetirement) THEN s
  ELSE accumulationPush(s,
         FMul(FAdd(s.portfolioValue,
                   FMul(p.annualInvestment, FPow(FAdd(Num(1), p.salaryGrowthRate), s.year))),
              FAdd(Num(1), p.preReturns[s.year + 1])))

RECURSIVE accumulationLoop(_, _, _)
accumulationLoop(s, n, p) ==
  IF n = 0 THEN s
  ELSE IF n = 1 THEN accumulationStep(s, p)
  ELSE LET h == accumulationLoop(s, n \div 2, p) IN
       IF h.year < p.yearsUntilRetirement THEN accumulationLoop(h, n - n \div 2, p) ELSE h

\* the push that counts the year of the depletion as survived
retirementPush_nextYear(s, p, portfolioValue) ==
  [year |-> s.year + 1,
   portfolioValue |-> portfolioValue,
   allValues |-> Append(s.allValues, FMax(Zero, portfolioValue)),
   survivalYears |-> IF FLe(portfolioValue, Zero) /\ s.survivalYears = p.retirementDuration
                     THEN s.year + 1
                     ELSE s.survivalYears]

\* simulateFullCycle, retirement phase: the push of a year's value
retirementPush(s, p, portfolioValue) ==
  [year |-> s.year + 1,
   portfolioValue |-> portfolioValue,
   allValues |-> Append(s.allValues, FMax(Zero, portfolioValue)),
   survivalYears |-> IF FLe(portfolioValue, Zero) /\ s.survivalYears = p.retirementDuration
                     THEN s.year
                     ELSE s.survivalYears]

\* the turn with the first year's withdrawal taken every year
retirementStep_flatWithdrawal(s, p) ==
  IF ~(s.year < p.retirementDuration) THEN s
  ELSE retirementPush(s, p,
         FMul(FSub(s.portfolioValue, p.annualRetirementIncome),
              FAdd(Num(1), p.postReturns[s.year + 1])))

\* simulateFullCycle, retirement phase: one turn of the loop
retirementStep(s, p) ==
  IF ~(s.year < p.retirementDuration) THEN s
  ELSE retirementPush(s, p,
         FMul(FSub(s.portfolioValue,
                   FMul(p.annualRetirementIncome, FPow(FAdd(Num(1), p.inflationRate), s.year))),
              FAdd(Num(1), p.postReturns[s.year + 1])))

RECURSIVE retirementLoop(_, _, _)
retirementLoop(s, n, p) ==
  IF n = 0 THEN s
  ELSE IF n = 1 THEN retirementStep(s, p)
  ELSE LET h == retirementLoop(s, n \div 2, p) IN
       IF h.year < p.retirementDuration THEN retirementLoop(h, n - n \div 2, p) ELSE h

\* what simulateFullCycle returns, from the state its second loop ends in
cycleResult(s) ==
  [finalValue |-> FMax(Zero, s.portfolioValue),
   survivalYears |-> s.survivalYears,
   values |-> s.allValues]

\* the second loop, from the state the first loop ends in
cycleRetirement(acc, q) ==
  cycleResult(retirementLoop([year |-> 0, portfolioValue |-> acc.portfolioValue,
                              allValues |-> acc.allValues,
                              survivalYears |-> q.retirementDuration],
                             q.retirementDuration, q))

\* p: the arguments of calculateSequenceRisk that simulateFullCycle reads
simulateFullCycle(preReturns, postReturns, p) ==
  cycleRetirement(
    accumulationLoop([year |-> 0, portfolioValue |-> Zero, allValues |-> <<Zero>>],
                     p.yearsUntilRetirement,
                     [p EXCEPT !.preReturns = preReturns, !.postReturns = postReturns]),
    [p EXCEPT !.preReturns = preReturns, !.postReturns = postReturns])

\* values[i] || 0, for an index i of the array (from 0) that may lie past its end
valueOrZero(values, i) == IF i + 1 <= Len(values) THEN OrZero(values[i + 1]) ELSE Zero

\* one element of scenarios
scenarioOf(name, preReturns, postReturns, cycle, preRetirementReturn, postRetirementReturn) ==
  [name |-> name, preRetirement |-> preReturns, postRetirement |-> postReturns,
   finalValue |-> cycle.finalValue, survivalYears |-> cycle.survivalYears,
   preRetirementReturnRate |-> preRetirementReturn,
   postRetirementReturnRate |-> postRetirementReturn]

\* the critical zone reaching into the retirement year
isCriticalZoneAt_intoRetirement(i, yearsUntilRetirement) ==
  i >= yearsUntilRetirement - 5 /\ i <= yearsUntilRetirement

\* isCriticalZone of the projection of year i
isCriticalZoneAt(i, yearsUntilRetirement) ==
  i >= yearsUntilRetirement - 5 /\ i < yearsUntilRetirement

\* what calculateSequenceRisk returns, from the four simulated cycles
sequenceOutput(p, pre, postRetSteady, bestCaseResult, worstCaseResult, earlyBearResult, averageResult) ==
  [scenarios |->
     << scenarioOf("Bull Market Into Retirement", pre.bestCase, postRetSteady, bestCaseResult,
                   p.preRetirementReturn, p.postRetirementReturn),
        scenarioOf("Bear Market Into Retirement", pre.worstCase, postRetSteady, worstCaseResult,
                   p.preRetirementReturn, p.postRetirementReturn),
        scenarioOf("Early Bear, Late Bull", pre.earlyBear, postRetSteady, earlyBearResult,
                   p.preRetirementReturn, p.postRetirementReturn),
        scenarioOf("Steady Average Returns", pre.average, postRetSteady, averageResult,
                   p.preRetirementReturn, p.postRetirementReturn) >>,
   projections |->
     [j \in 1..(p.yearsUntilRetirement + p.retirementDuration + 1) |->
        [year |-> p.fullYear + (j - 1),
         age |-> p.currentAge + (j - 1),
         isRetirementYear |-> (j - 1 = p.yearsUntilRetirement),
         isCriticalZone |-> isCriticalZoneAt(j - 1, p.yearsUntilRetirement),
         bestCase |-> valueOrZero(bestCaseResult.values, j - 1),
         worstCase |-> valueOrZero(worstCaseResult.values, j - 1),
         earlyBear |-> valueOrZero(earlyBearResult.values, j - 1),
         average |-> valueOrZero(averageResult.values, j - 1)]]]

\* the four cycles, from the generated sequences
sequenceCycles(p, pre, postRetSteady) ==
  sequenceOutput(p, pre, postRetSteady,
                 simulateFullCycle(pre.bestCase, postRetSteady, p),
                 simulateFullCycle(pre.worstCase, postRetSteady, p),
                 simulateFullCycle(pre.earlyBear, postRetSteady, p),
                 simulateFullCycle(pre.average, postRetSteady, p))

\* the scenarios with a post-retirement sequence that ramps with the volatility
calculateSequenceRisk_volatileAfter(yearsUntilRetirement, annualInvestment, preRetirementReturn, volatility, retirementDurationArg, annualRetirementIncome, inflationRateArg, salaryGrowthRate, postRetirementReturn, currentAgeArg, fullYear) ==
  sequenceCycles(
    [yearsUntilRetirement |-> yearsUntilRetirement, annualInvestment |-> annualInvestment,
     retirementDuration |-> retirementDurationArg,
     annualRetirementIncome |-> annualRetirementIncome,
     inflationRate |-> inflationRateArg, salaryGrowthRate |-> salaryGrowthRate,
     preRetirementReturn |-> preRetirementReturn, postRetirementReturn |-> postRetirementReturn,
     currentAge |-> currentAgeArg, fullYear |-> fullYear,
     preReturns |-> <<>>, postReturns |-> <<>>],
    [bestCase |-> generateSequence("bestCase", yearsUntilRetirement, preRetirementReturn, volatility),
     worstCase |-> generateSequence("worstCase", yearsUntilRetirement, preRetirementReturn, volatility),
     earlyBear |-> generateSequence("earlyBear", yearsUntilRetirement, preRetirementReturn, volatility),
     average |-> generateSequence("average", yearsUntilRetirement, preRetirementReturn, volatility)],
    generateSequence("bestCase", retirementDurationArg, postRetirementReturn, volatility))

calculateSequenceRisk(yearsUntilRetirement, annualInvestment, preRetirementReturn, volatility, retirementDurationArg, annualRetirementIncome, inflationRateArg, salaryGrowthRate, postRetirementReturn, currentAgeArg, fullYear) ==
  sequenceCycles(
    [yearsUntilRetirement |-> yearsUntilRetirement, annualInvestment |-> annualInvestment,
     retirementDuration |-> retirementDurationArg,
     annualRetirementIncome |-> annualRetirementIncome,
     inflationRate |-> inflationRateArg, salaryGrowthRate |-> salaryGrowthRate,
     preRetirementReturn |-> preRetirementReturn, postRetirementReturn |-> postRetirementReturn,
     currentAge |-> currentAgeArg, fullYear |-> fullYear,
     preReturns |-> <<>>, postReturns |-> <<>>],
    [bestCase |-> generateSequence("bestCase", yearsUntilRetirement, preRetirementReturn, volatility),
     worstCase |-> generateSequence("worstCase", yearsUntilRetirement, preRetirementReturn, volatility),
     earlyBear |-> generateSequence("earlyBear", yearsUntilRetirement, preRetirementReturn, volatility),
     average |-> generateSequence("average", yearsUntilRetirement, preRetirementReturn, volatility)],
    generateSequence("average", retirementDurationArg, postRetirementReturn, Zero))

\* ------------------------------------------------------------------------
\* runMonteCarloSimulation
\* ------------------------------------------------------------------------
\* the push of a year's value of a simulated path
pathPush(s, portfolioValue, rngAfter) ==
  [year |-> s.year + 1,
   portfolioValue |-> portfolioValue,
   yearlyValues |-> Append(s.yearlyValues, portfolioValue),
   rng |-> rngAfter]

\* the year's value, given the sampled return
pathGrow(s, p, draw) ==
  pathPush(s,
           FMul(FAdd(s.portfolioValue,
                     FMul(p.annualInvestment, FPow(FAdd(Num(1), p.salaryGrowthRate), s.year - 1))),
                FAdd(Num(1), draw.value)),
           draw.rng)

\* one year of one simulated path
pathStep(s, p) ==
  IF ~(s.year <= p.yearsUntilRetirement) THEN s
  ELSE pathGrow(s, p, generateNormalRandom(FDiv(p.expectedReturn, Num(100)),
                                           FDiv(p.volatility, Num(100)), s.rng))

RECURSIVE pathLoop(_, _, _)
pathLoop(s, n, p) ==
  IF n = 0 THEN s
  ELSE IF n = 1 THEN pathStep(s, p)
  ELSE LET h == pathLoop(s, n \div 2, p) IN
       IF h.year <= p.yearsUntilRetirement THEN pathLoop(h, n - n \div 2, p) ELSE h

\* the push of a simulated path
simulationPush(s, path) ==
  [sim |-> s.sim + 1,
   simulations |-> Append(s.simulations, path.yearlyValues),
   rng |-> path.rng]

\* one simulated path, appended to the simulations
simulationStep(s, p) ==
  IF ~(s.sim < numSimulations) THEN s
  ELSE simulationPush(s, pathLoop([year |-> 1, portfolioValue |-> Zero,
                                   yearlyValues |-> <<Zero>>, rng |-> s.rng],
                                  p.yearsUntilRetirement, p))

RECURSIVE simulationLoop(_, _, _)
simulationLoop(s, n, p) ==
  IF n = 0 THEN s
  ELSE IF n = 1 THEN simulationStep(s, p)
  ELSE LET h == simulationLoop(s, n \div 2, p) IN
       IF h.sim < numSimulations THEN simulationLoop(h, n - n \div 2, p) ELSE h

\* the comparison function handed to sort: (a, b) => a - b
compareFn(a, b) == FSub(a, b)

\* x put into a sorted array, behind the elements that do not compare greater
RECURSIVE insertSorted(_, _, _)
insertSorted(sorted, x, j) ==
  IF j >= 1 /\ FGt(compareFn(sorted[j], x), Zero) THEN insertSorted(sorted, x, j - 1)
  ELSE SubSeq(sorted, 1, j) \o <<x>> \o SubSeq(sorted, j + 1, Len(sorted))

\* the first n elements of an array, sorted by compareFn
RECURSIVE sortPrefix(_, _)
sortPrefix(values, n) ==
  IF n = 0 THEN <<>>
  ELSE insertSorted(sortPrefix(values, n - 1), values[n], n - 1)

\* the array left in the order the paths were pushed in
sort_unsorted(values) == values

sort(values) == sortPrefix(values, Len(values))

\* yearValues[Math.floor(numSimulations * fraction)]
percentile(yearValues, fraction) == yearValues[floor(FMul(Num(numSimulations), fraction)) + 1]

\* the inner loop of the deterministic value, for i from lo to hi
RECURSIVE deterministicValueOf(_, _, _, _, _, _)
deterministicValueOf(lo, hi, annualInvestment, salaryGrowthRate, expectedReturn, deterministicValue) ==
  IF lo > hi THEN deterministicValue
  ELSE IF lo = hi THEN
    LET yearContribution == FMul(annualInvestment, FPow(FAdd(Num(1), salaryGrowthRate), lo - 1))
    IN FMul(FAdd(deterministicValue, yearContribution), FAdd(Num(1), FDiv(expectedReturn, Num(100))))
  ELSE LET mid == (lo + hi) \div 2
           t == deterministicValueOf(lo, mid, annualInvestment, salaryGrowthRate, expectedReturn,
                                     deterministicValue)
       IN IF isNaN(t) THEN t
          ELSE deterministicValueOf(mid + 1, hi, annualInvestment, salaryGrowthRate, expectedReturn, t)

\* the row with a deterministic value of contributions that do not grow
monteCarloRow_noGrowth(p, year, yearValues) ==
  [year |-> p.fullYear + year,
   age |-> p.currentAge + year,
   p10 |-> percentile(yearValues, Norm(1, -1)),
   p25 |-> percentile(yearValues, Norm(25, -2)),
   p50 |-> percentile(yearValues, Norm(5, -1)),
   p75 |-> percentile(yearValues, Norm(75, -2)),
   p90 |-> percentile(yearValues, Norm(9, -1)),
   target |-> p.targetCorpus,
   deterministic |-> deterministicValueOf(1, year, p.annualInvestment, Zero,
                                          p.expectedReturn, Zero)]

\* the element of projections for a year, from the year's sorted values
monteCarloRow(p, year, yearValues) ==
  [year |-> p.fullYear + year,
   age |-> p.currentAge + year,
   p10 |-> percentile(yearValues, Norm(1, -1)),
   p25 |-> percentile(yearValues, Norm(25, -2)),
   p50 |-> percentile(yearValues, Norm(5, -1)),
   p75 |-> percentile(yearValues, Norm(75, -2)),
   p90 |-> percentile(yearValues, Norm(9, -1)),
   target |-> p.targetCorpus,
   deterministic |-> deterministicValueOf(1, year, p.annualInvestment, p.salaryGrowthRate,
                                          p.expectedReturn, Zero)]

\* the projections, from the simulated paths
monteCarloOutput(p, run) ==
  [rng |-> run.rng,
   projections |->
     [j \in 1..(p.yearsUntilRetirement + 1) |->
        monteCarloRow(p, j - 1, sort([sim \in 1..numSimulations |-> run.simulations[sim][j]]))]]

\* the projections, and the state of Math.random after the simulations
runMonteCarloSimulation(yearsUntilRetirement, annualInvestment, expectedReturn, volatility, targetCorpus, currentAgeArg, salaryGrowthRate, rngState, fullYear) ==
  monteCarloOutput(
    [yearsUntilRetirement |-> yearsUntilRetirement, annualInvestment |-> annualInvestment,
     expectedReturn |-> expectedReturn, volatility |-> volatility,
     targetCorpus |-> targetCorpus, currentAge |-> currentAgeArg,
     salaryGrowthRate |-> salaryGrowthRate, fullYear |-> fullYear],
    simulationLoop([sim |-> 0, simulations |-> <<>>, rng |-> rngState], numSimulations,
                   [yearsUntilRetirement |-> yearsUntilRetirement,
                    annualInvestment |-> annualInvestment,
                    expectedReturn |-> expectedReturn, volatility |-> volatility,
                    salaryGrowthRate |-> salaryGrowthRate]))

\* ------------------------------------------------------------------------
\* calculateRetirement: the result it hands to setResults
\* ------------------------------------------------------------------------
\* fault: the test lets a volatility of 0 through
hasVolatility_orZero(vehicle) == FGe(vehicle.volatility, Zero)

\* the condition under which the Monte Carlo and sequence analyses run
hasVolatility(vehicle) == Truthy(vehicle.volatility) /\ FGt(vehicle.volatility, Zero)

incomePercentageNeededOf(annualInvestment, income) == FMul(FDiv(annualInvestment, income), Num(100))

\* the test with 75% itself counted as unrealistic
isUnrealisticOf_atLeast(incomePercentageNeeded) == FGe(incomePercentageNeeded, Num(75))

isUnrealisticOf(incomePercentageNeeded) == FGt(incomePercentageNeeded, Num(75))

\* the object given to setResults, with the solver's iteration count and the
\* state of Math.random; c holds the values calculateRetirement computed
resultsOf(c, last, incomePercentageNeeded, monteCarlo, sequenceResults) ==
  [iterations |-> c.solved.iterations,
   rng |-> monteCarlo.rng,
   results |->
     [yearsUntilRetirement |-> c.yearsUntilRetirement,
      targetRetirementCorpus |-> c.finalTargetCorpus,
      monthlyInvestmentNeeded |-> FDiv(c.solved.testAnnualInvestment, Num(12)),
      annualInvestmentNeeded |-> c.solved.testAnnualInvestment,
      totalContributions |-> last.cumulativeContribution,
      totalReturns |-> FSub(last.totalValue, last.cumulativeContribution),
      yearlyProjections |-> c.yearlyProjections,
      postRetirementProjections |-> c.postRetirementProjections,
      replacementRatio |-> c.replacementRatio,
      annualRetirementIncome |-> c.futureRetirementIncome,
      retirementDuration |-> retirementDuration,
      safeWithdrawalRate |-> c.withdrawalRate,
      isUnrealistic |-> isUnrealisticOf(incomePercentageNeeded),
      incomePercentageNeeded |-> incomePercentageNeeded,
      monteCarloProjections |-> monteCarlo.projections,
      postRetirementVehicle |-> c.postRetVehicle,
      sequenceScenarios |-> sequenceResults.scenarios,
      sequenceProjections |-> sequenceResults.projections]]

\* the analyses behind the volatility test, or undefined
withRisk(c) ==
  resultsOf(c, c.yearlyProjections[Len(c.yearlyProjections)],
            incomePercentageNeededOf(c.solved.testAnnualInvestment, c.income),
            IF hasVolatility(c.vehicle)
            THEN runMonteCarloSimulation(c.yearsUntilRetirement, c.solved.testAnnualInvestment,
                                         c.vehicle.returnRate, c.vehicle.volatility,
                                         c.finalTargetCorpus, c.age, c.annualSalaryGrowth,
                                         c.rng, c.fullYear)
            ELSE [rng |-> c.rng, projections |-> undefined],
            IF hasVolatility(c.vehicle)
            THEN calculateSequenceRisk(c.yearsUntilRetirement, c.solved.testAnnualInvestment,
                                       c.vehicle.returnRate, c.vehicle.volatility,
                                       retirementDuration, c.futureRetirementIncome,
                                       inflationRate, c.annualSalaryGrowth,
                                       c.postRetVehicle.returnRate, c.age, c.fullYear)
            ELSE [scenarios |-> undefined, projections |-> undefined])

\* the two projection tables, from the solved contribution
withProjections(c, solved) ==
  withRisk([c EXCEPT
    !.solved = solved,
    !.yearlyProjections =
       yearlyProjectionsOf(solved.testAnnualInvestment, c.yearsUntilRetirement,
                           c.annualSalaryGrowth, c.vehicle.returnRate, c.age, c.fullYear),
    !.postRetirementProjections =
       postRetirementProjectionsOf(c.finalTargetCorpus, c.futureRetirementIncome,
                                   c.postRetVehicle.returnRate, c.yearsUntilRetirement,
                                   c.retAge, c.fullYear)])

\* the solver, from the target corpus
withCorpus(c, finalTargetCorpus) ==
  withProjections([c EXCEPT !.finalTargetCorpus = finalTargetCorpus],
                  solveContribution(finalTargetCorpus, c.yearsUntilRetirement,
                                    c.annualSalaryGrowth, c.vehicle.returnRate))

\* the target corpus, from the income needed in retirement
withIncome(c, futureRetirementIncome) ==
  withCorpus([c EXCEPT !.futureRetirementIncome = futureRetirementIncome],
             finalTargetCorpusOf(futureRetirementIncome, c.withdrawalRate, c.vehicle.returnRate))

\* the body of calculateRetirement after validation
calculationOf(age, retAge, income, vehicle, replacementRatio, withdrawalRate, annualSalaryGrowth, postRetVehicle, fullYear, rngState) ==
  withIncome([age |-> age, retAge |-> retAge, income |-> income, vehicle |-> vehicle,
              replacementRatio |-> replacementRatio, withdrawalRate |-> withdrawalRate,
              annualSalaryGrowth |-> annualSalaryGrowth, postRetVehicle |-> postRetVehicle,
              fullYear |-> fullYear, rng |-> rngState,
              yearsUntilRetirement |-> retAge - age,
              futureRetirementIncome |-> Zero, finalTargetCorpus |-> Zero, solved |-> <<>>,
              yearlyProjections |-> <<>>, postRetirementProjections |-> <<>>],
             futureRetirementIncomeOf(income, annualSalaryGrowth, replacementRatio, retAge - age))

\* ------------------------------------------------------------------------
\* The component RetirementCalculator
\* ------------------------------------------------------------------------
VARIABLES
  currentAge, retirementAge, currentIncome, selectedVehicle,   \* the fields' texts
  retirementIncomePercent, safeWithdrawalRate, salaryGrowth,
  useLowestRiskPostRetirement, postRetirementVehicle,
  advancedOpen, \* whether the advanced settings are unfolded
  results,      \* the result on screen, or null
  alerted,      \* what the latest press of Calculate alerted, "" if nothing
  iterations,   \* the solver's iteration count in the latest accepted run
  calcInputs,   \* the fields as the latest accepted run read them, or null
  now,          \* new Date().getFullYear()
  rng,          \* the state of Math.random
  steps,        \* the user's actions so far
  call,         \* a function called on its own, with its arguments, or null
  returned      \* what that call returned, or null

fields == <<currentAge, retirementAge, currentIncome, selectedVehicle, retirementIncomePercent,
            safeWithdrawalRate, salaryGrowth, useLowestRiskPostRetirement, postRetirementVehicle>>

vars == <<fields, advancedOpen, results, alerted, iterations, calcInputs, now, rng, steps,
          call, returned>>

\* at most MaxSteps actions of the user are followed; the clock starts in
\* FirstYear; Math.random starts in one of Seeds
MaxSteps == 3
FirstYear == 2026
Seeds == {1, 18}

AgeTexts == {<<"2", "4">>, <<"3", "4">>, <<"3", "9">>, <<"4", "0">>, <<>>}
RetirementAgeTexts == {<<"4", "0">>, <<"2", "5">>}
IncomeTexts == {<<"5", "2", "0", "0", "0">>, <<"0">>}
VehicleTexts == {<<"0">>, <<"1">>, <<"2">>, <<"3">>, <<"4">>}
PercentTexts == {<<"7", "5">>, <<"0">>}
WithdrawalTexts == {<<"4">>, <<"0">>}
GrowthTexts == {<<"2">>, <<"0">>, <<"2", ".", "5">>}

Init ==
  /\ currentAge = <<"2", "4">>
  /\ retirementAge = <<"4", "0">>
  /\ currentIncome = <<"5", "2", "0", "0", "0">>
  /\ selectedVehicle = <<"1">>
  /\ retirementIncomePercent = <<"7", "5">>
  /\ safeWithdrawalRate = <<"4">>
  /\ salaryGrowth = <<"2">>
  /\ useLowestRiskPostRetirement = TRUE
  /\ postRetirementVehicle = <<"0">>
  /\ advancedOpen = FALSE
  /\ results = null
  /\ alerted = ""
  /\ iterations = 0
  /\ calcInputs = null
  /\ now = FirstYear
  /\ rng \in Seeds
  /\ steps = 0
  /\ call = null
  /\ returned = null

step == steps < MaxSteps /\ steps' = steps + 1 /\ UNCHANGED <<call, returned>>

\* a setter of the form leaves everything but its field

untouched == UNCHANGED <<results, alerted, iterations, calcInputs, now, rng>>

setAdvancedOpen(v) == step /\ advancedOpen' = v /\ untouched /\ UNCHANGED fields

setCurrentAge(v) ==
  /\ step /\ UNCHANGED advancedOpen /\ currentAge' = v /\ untouched
  /\ UNCHANGED <<retirementAge, currentIncome, selectedVehicle, retirementIncomePercent,
                 safeWithdrawalRate, salaryGrowth, useLowestRiskPostRetirement, postRetirementVehicle>>

setRetirementAge(v) ==
  /\ step /\ UNCHANGED advancedOpen /\ retirementAge' = v /\ untouched
  /\ UNCHANGED <<currentAge, currentIncome, selectedVehicle, retirementIncomePercent,
                 safeWithdrawalRate, salaryGrowth, useLowestRiskPostRetirement, postRetirementVehicle>>

setCurrentIncome(v) ==
  /\ step /\ UNCHANGED advancedOpen /\ currentIncome' = v /\ untouched
  /\ UNCHANGED <<currentAge, retirementAge, selectedVehicle, retirementIncomePercent,
                 safeWithdrawalRate, salaryGrowth, useLowestRiskPostRetirement, postRetirementVehicle>>

setSelectedVehicle(v) ==
  /\ step /\ UNCHANGED advancedOpen /\ selectedVehicle' = v /\ untouched
  /\ UNCHANGED <<currentAge, retirementAge, currentIncome, retirementIncomePercent,
                 safeWithdrawalRate, salaryGrowth, useLowestRiskPostRetirement, postRetirementVehicle>>

setRetirementIncomePercent(v) ==
  /\ advancedOpen
  /\ step /\ UNCHANGED advancedOpen /\ retirementIncomePercent' = v /\ untouched
  /\ UNCHANGED <<currentAge, retirementAge, currentIncome, selectedVehicle,
                 safeWithdrawalRate, salaryGrowth, useLowestRiskPostRetirement, postRetirementVehicle>>

setSafeWithdrawalRate(v) ==
  /\ advancedOpen
  /\ step /\ UNCHANGED advancedOpen /\ safeWithdrawalRate' = v /\ untouched
  /\ UNCHANGED <<currentAge, retirementAge, currentIncome, selectedVehicle, retirementIncomePercent,
                 salaryGrowth, useLowestRiskPostRetirement, postRetirementVehicle>>

setSalaryGrowth(v) ==
  /\ advancedOpen
  /\ step /\ UNCHANGED advancedOpen /\ salaryGrowth' = v /\ untouched
  /\ UNCHANGED <<currentAge, retirementAge, currentIncome, selectedVehicle, retirementIncomePercent,
                 safeWithdrawalRate, useLowestRiskPostRetirement, postRetirementVehicle>>

setUseLowestRiskPostRetirement(v) ==
  /\ advancedOpen
  /\ step /\ UNCHANGED advancedOpen /\ useLowestRiskPostRetirement' = v /\ untouched
  /\ UNCHANGED <<currentAge, retirementAge, currentIncome, selectedVehicle, retirementIncomePercent,
                 safeWithdrawalRate, salaryGrowth, postRetirementVehicle>>

\* the selector is rendered only while the switch is off
setPostRetirementVehicle(v) ==
  /\ advancedOpen /\ ~useLowestRiskPostRetirement
  /\ step /\ UNCHANGED advancedOpen /\ postRetirementVehicle' = v /\ untouched
  /\ UNCHANGED <<currentAge, retirementAge, currentIncome, selectedVehicle, retirementIncomePercent,
                 safeWithdrawalRate, salaryGrowth, useLowestRiskPostRetirement>>

\* the fields, as calculateRetirement reads them
inputs ==
  [currentAge |-> currentAge, retirementAge |-> retirementAge, currentIncome |-> currentIncome,
   selectedVehicle |-> selectedVehicle, retirementIncomePercent |-> retirementIncomePercent,
   safeWithdrawalRate |-> safeWithdrawalRate, salaryGrowth |-> salaryGrowth,
   useLowestRiskPostRetirement |-> useLowestRiskPostRetirement,
   postRetirementVehicle |-> postRetirementVehicle]

\* the return that also takes the result off the screen
rejected_clears(message) ==
  /\ alerted' = message
  /\ results' = null
  /\ UNCHANGED <<iterations, calcInputs, rng>>

\* alert(message); return
rejected(message) ==
  /\ alerted' = message
  /\ UNCHANGED <<results, iterations, calcInputs, rng>>

\* setResults(...), with what the run computed
accepted(c) ==
  /\ results' = c.results
  /\ iterations' = c.iterations
  /\ rng' = c.rng
  /\ calcInputs' = inputs
  /\ alerted' = ""

calculateRetirement ==
  /\ step
  /\ UNCHANGED <<fields, advancedOpen, now>>
  /\ LET age == parseInt(currentAge)
         retAge == parseInt(retirementAge)
         income == parseFloat(currentIncome)
         vehicle == vehicleAt(parseInt(selectedVehicle))
         replacementRatio == FDiv(parseFloat(retirementIncomePercent), Num(100))
         withdrawalRate == FDiv(parseFloat(safeWithdrawalRate), Num(100))
         annualSalaryGrowth == FDiv(parseFloat(salaryGrowth), Num(100))
         postRetVehicle == IF useLowestRiskPostRetirement THEN investmentVehicles[1]
                           ELSE vehicleAt(parseInt(postRetirementVehicle))
     IN IF isNaN(age) \/ isNaN(retAge) \/ isNaN(income) \/ isNaN(replacementRatio)
           \/ isNaN(withdrawalRate) \/ isNaN(annualSalaryGrowth)
        THEN rejected("Please ensure all fields are filled with valid numbers")
        ELSE IF FGe(age, retAge)
        THEN rejected("Retirement age must be greater than current age")
        ELSE IF FLe(income, Zero)
        THEN rejected("Current income must be greater than zero")
        ELSE accepted(calculationOf(IntOf(age), IntOf(retAge), income, vehicle, replacementRatio,
                                    withdrawalRate, annualSalaryGrowth, postRetVehicle, now, rng))

\* the calendar year changes
Tick ==
  /\ step
  /\ now' = now + 1
  /\ UNCHANGED <<fields, advancedOpen, results, alerted, iterations, calcInputs, rng>>

Next ==
  \/ \E v \in BOOLEAN : setAdvancedOpen(v)
  \/ \E v \in AgeTexts : setCurrentAge(v)
  \/ \E v \in RetirementAgeTexts : setRetirementAge(v)
  \/ \E v \in IncomeTexts : setCurrentIncome(v)
  \/ \E v \in VehicleTexts : setSelectedVehicle(v)
  \/ \E v \in PercentTexts : setRetirementIncomePercent(v)
  \/ \E v \in WithdrawalTexts : setSafeWithdrawalRate(v)
  \/ \E v \in GrowthTexts : setSalaryGrowth(v)
  \/ \E v \in BOOLEAN : setUseLowestRiskPostRetirement(v)
  \/ \E v \in VehicleTexts : setPostRetirementVehicle(v)
  \/ calculateRetirement
  \/ Tick

Spec == Init /\ [][Next]_vars

\* One press of Calculate, on any fields with retirement at 40, or on the
\* default fields with retirement at 100 and the Very High Risk vehicle
InitCalc ==
  /\ \/ /\ currentAge \in AgeTexts
        /\ retirementAge = <<"4", "0">>
        /\ currentIncome \in IncomeTexts
        /\ selectedVehicle \in VehicleTexts
        /\ retirementIncomePercent \in PercentTexts
        /\ safeWithdrawalRate \in WithdrawalTexts
     \/ /\ currentAge = <<"2", "4">>
        /\ retirementAge = <<"1", "0", "0">>
        /\ currentIncome = <<"5", "2", "0", "0", "0">>
        /\ selectedVehicle = <<"4">>
        /\ retirementIncomePercent = <<"7", "5">>
        /\ safeWithdrawalRate = <<"4">>
  /\ salaryGrowth = <<"2">>
  /\ useLowestRiskPostRetirement \in BOOLEAN
  /\ postRetirementVehicle = IF useLowestRiskPostRetirement THEN <<"0">> ELSE <<"3">>
  /\ advancedOpen = FALSE
  /\ results = null
  /\ alerted = ""
  /\ iterations = 0
  /\ calcInputs = null
  /\ now = FirstYear
  /\ rng \in Seeds
  /\ steps = MaxSteps - 1
  /\ call = null
  /\ returned = null

NextCalc == calculateRetirement

SpecCalc == InitCalc /\ [][NextCalc]_vars

\* ------------------------------------------------------------------------
\* The functions of the calculator called on their own: generateSequence on
\* up to MaxYears years, and the income test of calculateRetirement
\* ------------------------------------------------------------------------
MaxYears == 12
SequenceTypes == {"bestCase", "worstCase", "earlyBear", "average"}
ReturnRates == {Num(4), Num(12), Num(22)}
Volatilities == {Zero, Num(15), Num(35)}
Contributions == {Zero, Num(75), Num(76), Num(38999), Num(39000), Num(39001),
                  Norm(40323401, -3), FNeg(Num(39001)), NaN, PInf}
Incomes == {Num(52000), Num(100)}

\* the component as it is mounted, with no action of the user followed
atRest ==
  /\ currentAge = <<"2", "4">>
  /\ retirementAge = <<"4", "0">>
  /\ currentIncome = <<"5", "2", "0", "0", "0">>
  /\ selectedVehicle = <<"1">>
  /\ retirementIncomePercent = <<"7", "5">>
  /\ safeWithdrawalRate = <<"4">>
  /\ salaryGrowth = <<"2">>
  /\ useLowestRiskPostRetirement = TRUE
  /\ postRetirementVehicle = <<"0">>
  /\ advancedOpen = FALSE
  /\ results = null
  /\ alerted = ""
  /\ iterations = 0
  /\ calcInputs = null
  /\ now = FirstYear
  /\ rng = 1
  /\ steps = MaxSteps
  /\ returned = null

\* the component is left alone by a call
idle == UNCHANGED <<fields, advancedOpen, results, alerted, iterations, calcInputs, now, rng,
                    steps, call>>

\* generateSequence, on any type, years, base return and volatility
InitSequence ==
  /\ atRest
  /\ \E type \in SequenceTypes, years \in 1..MaxYears, baseReturn \in ReturnRates,
         vol \in Volatilities :
        call = [fn |-> "generateSequence", type |-> type, years |-> years,
                baseReturn |-> baseReturn, vol |-> vol]

callGenerateSequence ==
  /\ call # null
  /\ call.fn = "generateSequence"
  /\ returned = null
  /\ returned' = [returns |-> generateSequence(call.type, call.years, call.baseReturn, call.vol)]
  /\ idle

NextSequence == callGenerateSequence

SpecSequence == InitSequence /\ [][NextSequence]_vars

\* the income test of calculateRetirement, on any contribution and income
InitIncomeTest ==
  /\ atRest
  /\ \E annualInvestment \in Contributions, income \in Incomes :
        call = [fn |-> "incomeTest", annualInvestment |-> annualInvestment, income |-> income]

callIncomeTest ==
  /\ call # null
  /\ call.fn = "incomeTest"
  /\ returned = null
  /\ returned' = [incomePercentageNeeded |->
                    incomePercentageNeededOf(call.annualInvestment, call.income),
                  isUnrealistic |->
                    isUnrealisticOf(incomePercentageNeededOf(call.annualInvestment, call.income))]
  /\ idle

\* one press of Calculate, or the income test on its own
InitIncome == InitCalc \/ InitIncomeTest

NextIncome == calculateRetirement \/ callIncomeTest

SpecIncome == InitIncome /\ [][NextIncome]_vars

\* ------------------------------------------------------------------------
\* runMonteCarloSimulation called on its own, on up to MaxPathYears years,
\* with the paths it simulated kept next to the projections, and with the
\* projections the same paths give when they are pushed in another order
\* ------------------------------------------------------------------------
MaxPathYears == 3
PathSeeds == {1, 7, 18, 25}
PathVehicles == {3, 4, 5}
PathContributions == {Zero, Num(1000), Num(39000), NaN}
Orders == {"reversed", "rotated", "interleaved"}

\* the simulations, pushed in another order
reorder(simulations, order) ==
  LET n == Len(simulations)
  IN [sim \in 1..n |->
        simulations[CASE order = "reversed" -> n + 1 - sim
                      [] order = "rotated" -> (sim % n) + 1
                      [] OTHER -> IF 2 * sim - 1 <= n THEN 2 * sim - 1
                                  ELSE 2 * (sim - (n + 1) \div 2)]]

InitMonteCarlo ==
  /\ currentAge = <<"2", "4">>
  /\ retirementAge = <<"4", "0">>
  /\ currentIncome = <<"5", "2", "0", "0", "0">>
  /\ selectedVehicle = <<"1">>
  /\ retirementIncomePercent = <<"7", "5">>
  /\ safeWithdrawalRate = <<"4">>
  /\ salaryGrowth = <<"2">>
  /\ useLowestRiskPostRetirement = TRUE
  /\ postRetirementVehicle = <<"0">>
  /\ advancedOpen = FALSE
  /\ results = null
  /\ alerted = ""
  /\ iterations = 0
  /\ calcInputs = null
  /\ now = FirstYear
  /\ rng \in PathSeeds
  /\ steps = MaxSteps
  /\ returned = null
  /\ \E years \in 1..MaxPathYears, annualInvestment \in PathContributions,
         v \in PathVehicles, order \in Orders :
        call = [fn |-> "runMonteCarloSimulation", yearsUntilRetirement |-> years,
                annualInvestment |-> annualInvestment,
                expectedReturn |-> investmentVehicles[v].returnRate,
                volatility |-> investmentVehicles[v].volatility,
                targetCorpus |-> Num(1000000), currentAge |-> 24,
                salaryGrowthRate |-> Norm(2, -2), order |-> order]

\* what the call leaves behind: the projections, the paths behind them, and
\* the projections of the paths in the order call.order
monteCarloCall(p, run, out) ==
  [projections |-> out.projections,
   simulations |-> run.simulations,
   reordered |-> monteCarloOutput(p, [run EXCEPT !.simulations = reorder(run.simulations, call.order)]).projections]

callRunMonteCarloSimulation ==
  /\ call # null
  /\ call.fn = "runMonteCarloSimulation"
  /\ returned = null
  /\ LET p == [yearsUntilRetirement |-> call.yearsUntilRetirement,
               annualInvestment |-> call.annualInvestment,
               expectedReturn |-> call.expectedReturn, volatility |-> call.volatility,
               targetCorpus |-> call.targetCorpus, currentAge |-> call.currentAge,
               salaryGrowthRate |-> call.salaryGrowthRate, fullYear |-> now]
         out == runMonteCarloSimulation(call.yearsUntilRetirement, call.annualInvestment,
                                        call.expectedReturn, call.volatility, call.targetCorpus,
                                        call.currentAge, call.salaryGrowthRate, rng, now)
     IN /\ returned' = monteCarloCall(p, simulationLoop([sim |-> 0, simulations |-> <<>>, rng |-> rng],
                                                        numSimulations, p), out)
        /\ rng' = out.rng
  /\ UNCHANGED <<fields, advancedOpen, results, alerted, iterations, calcInputs, now, steps, call>>

NextMonteCarlo == callRunMonteCarloSimulation

SpecMonteCarlo == InitMonteCarlo /\ [][NextMonteCarlo]_vars

\* ------------------------------------------------------------------------
\* simulateFullCycle called on its own, as calculateSequenceRisk calls it: on
\* a generated sequence of up to MaxCycleYears years before retirement and
\* the steady sequence after it
\* ------------------------------------------------------------------------
MaxCycleYears == 3
CycleVehicles == {3, 5}
CycleContributions == {Zero, Num(1000), Num(100000), NaN}
CycleIncomes == {Zero, Num(1000), Num(20000), Num(400000)}
CyclePostReturns == {Num(4), Num(12)}

InitCycle ==
  /\ atRest
  /\ \E type \in SequenceTypes, years \in 1..MaxCycleYears,
         annualInvestment \in CycleContributions, v \in CycleVehicles,
         annualRetirementIncome \in CycleIncomes, postRetirementReturn \in CyclePostReturns :
        call = [fn |-> "simulateFullCycle", type |-> type, yearsUntilRetirement |-> years,
                annualInvestment |-> annualInvestment,
                preRetirementReturn |-> investmentVehicles[v].returnRate,
                volatility |-> investmentVehicles[v].volatility,
                retirementDuration |-> retirementDuration,
                annualRetirementIncome |-> annualRetirementIncome,
                inflationRate |-> inflationRate, salaryGrowthRate |-> Norm(2, -2),
                postRetirementReturn |-> postRetirementReturn]

callSimulateFullCycle ==
  /\ call # null
  /\ call.fn = "simulateFullCycle"
  /\ returned = null
  /\ returned' = simulateFullCycle(
                   generateSequence(call.type, call.yearsUntilRetirement,
                                    call.preRetirementReturn, call.volatility),
                   generateSequence("average", call.retirementDuration,
                                    call.postRetirementReturn, Zero),
                   [yearsUntilRetirement |-> call.yearsUntilRetirement,
                    annualInvestment |-> call.annualInvestment,
                    retirementDuration |-> call.retirementDuration,
                    annualRetirementIncome |-> call.annualRetirementIncome,
                    inflationRate |-> call.inflationRate,
                    salaryGrowthRate |-> call.salaryGrowthRate,
                    preReturns |-> <<>>, postReturns |-> <<>>])
  /\ idle

NextCycle == callSimulateFullCycle

SpecCycle == InitCycle /\ [][NextCycle]_vars

\* ------------------------------------------------------------------------
\* The component RetirementResults (src/components/RetirementResults.tsx):
\* what it derives from the result it is given.  A formatted figure is the
\* number its text shows, with its unit.
\* ------------------------------------------------------------------------
\* Math.round: the nearest whole number, halves upwards; NaN and the
\* infinities are returned as they are
MathRound(x) ==
  IF x.k # "fin" \/ x.e >= 0 THEN x ELSE Num(floor(FAdd(x, Norm(5, -1))))

\* x.toFixed(1), x.toFixed(0): the number with one decimal, with none
toFixed1(x) == FDiv(MathRound(FMul(x, Num(10))), Num(10))
toFixed0(x) == MathRound(x)

\* whole pounds, or the text for 0 when the value is not finite
formatCurrency(value) ==
  IF ~isFinite(value) \/ isNaN(value) THEN [unit |-> "GBP", amount |-> Zero]
  ELSE [unit |-> "GBP", amount |-> MathRound(value)]

formatAxisValue(value) ==
  IF ~isFinite(value) \/ isNaN(value) THEN [unit |-> "GBP", amount |-> Zero]
  ELSE IF FGe(value, Num(1000000))
  THEN [unit |-> "GBP m", amount |-> toFixed1(FDiv(value, Num(1000000)))]
  ELSE [unit |-> "GBP k", amount |-> toFixed0(FDiv(value, Num(1000)))]

formatPercent(value) ==
  IF ~isFinite(value) \/ isNaN(value) THEN [unit |-> "%", amount |-> Zero]
  ELSE [unit |-> "%", amount |-> toFixed1(value)]

\* the data of the growth chart
growthChartData(r) ==
  [i \in 1..Len(r.yearlyProjections) |->
     [year |-> r.yearlyProjections[i].year,
      Contributions |-> MathRound(r.yearlyProjections[i].cumulativeContribution),
      Returns |-> MathRound(r.yearlyProjections[i].investmentReturns),
      TotalValue |-> MathRound(r.yearlyProjections[i].totalValue)]]

\* the data of the drawdown chart
postRetirementChartData(r) ==
  [i \in 1..Len(r.postRetirementProjections) |->
     [year |-> r.postRetirementProjections[i].year,
      age |-> r.postRetirementProjections[i].age,
      PortfolioValue |-> MathRound(r.postRetirementProjections[i].portfolioValue),
      Withdrawal |-> MathRound(r.postRetirementProjections[i].withdrawal)]]

\* the data of the pie chart
contributionsVsReturns(r) ==
  << [name |-> "Your Contributions", value |-> r.totalContributions],
     [name |-> "Investment Returns", value |-> r.totalReturns] >>

returnsPercentage(r) ==
  FMul(FDiv(r.totalReturns, FAdd(r.totalReturns, r.totalContributions)), Num(100))

\* the figures of the cards at the top and of the summary
keyFigures(r) ==
  << formatCurrency(r.monthlyInvestmentNeeded), formatCurrency(r.annualInvestmentNeeded),
     formatCurrency(r.targetRetirementCorpus), formatCurrency(r.totalReturns),
     formatPercent(returnsPercentage(r)), formatCurrency(r.totalContributions),
     formatCurrency(FAdd(r.totalContributions, r.totalReturns)),
     formatPercent(FMul(FDiv(r.totalReturns, r.totalContributions), Num(100))) >>

\* ------------------------------------------------------------------------
\* The render of RetirementCalculator: the inputs it hands to RetirementResults
\* next to the result on screen, read from the fields as they are
\* ------------------------------------------------------------------------
RetirementResultsInputs ==
  [currentAge |-> parseInt(currentAge),
   retirementAge |-> parseInt(retirementAge),
   currentIncome |-> parseFloat(currentIncome),
   investmentVehicle |-> vehicleAt(parseInt(selectedVehicle)),
   replacementRatio |-> FDiv(parseFloat(retirementIncomePercent), Num(100)),
   safeWithdrawalRate |-> FDiv(parseFloat(safeWithdrawalRate), Num(100))]

\* ------------------------------------------------------------------------
\* The component SequenceRiskVisualization
\* (src/components/SequenceRiskVisualization.tsx): the test behind the
\* Failed badge of a scenario's card
\* ------------------------------------------------------------------------
isSuccess(scenario, retirementDurationArg) == scenario.survivalYears >= retirementDurationArg

\* ------------------------------------------------------------------------
\* Properties
\* ------------------------------------------------------------------------
\* the vehicle the latest accepted run invested in before retirement
calcVehicle == vehicleAt(parseInt(calcInputs.selectedVehicle))

\* the last row of the accumulation table on screen
lastYearly == results.yearlyProjections[Len(results.yearlyProjections)]

\* C1: with the contribution the solver returned, the accumulation ends within
\* 1000 of the target corpus, or the solver made all of its 100 iterations.
C1_WithinToleranceOrCapped ==
  results # null =>
    \/ FLt(FAbs(FSub(results.targetRetirementCorpus, lastYearly.totalValue)), Num(1000))
    \/ iterations = maxIterations

\* a run whose solver stopped on its own, after some adjustments
C1_Converged ==
  /\ results # null
  /\ iterations > 0 /\ iterations < maxIterations
  /\ FLt(FAbs(FSub(results.targetRetirementCorpus, lastYearly.totalValue)), Num(1000))

\* C2: when the latest press of Calculate was rejected, no result is on screen.
C2_NoResultAfterRejection == alerted # "" => results = null

\* the example of the specification: 24, 40, 52000, Moderate Risk, 75%, 4%, 2%
isExample(in) ==
  /\ in.currentAge = <<"2", "4">>
  /\ in.retirementAge = <<"4", "0">>
  /\ in.currentIncome = <<"5", "2", "0", "0", "0">>
  /\ in.selectedVehicle = <<"2">>
  /\ in.retirementIncomePercent = <<"7", "5">>
  /\ in.safeWithdrawalRate = <<"4">>
  /\ in.salaryGrowth = <<"2">>

\* C3, as amended: the example yields 16 years until retirement and is flagged
\* unrealistic, its contribution being more than 75% of 52000 (39000).
C3_ExampleIsUnrealistic ==
  (results # null /\ isExample(calcInputs)) =>
    /\ results.yearsUntilRetirement = 16
    /\ results.isUnrealistic = TRUE
    /\ FGt(results.annualInvestmentNeeded, Num(39000))

\* C3, as stated: the example yields 16 years until retirement and is not
\* flagged unrealistic.
C3_ExampleIsRealistic ==
  (results # null /\ isExample(calcInputs)) =>
    /\ results.yearsUntilRetirement = 16
    /\ results.isUnrealistic = FALSE

\* the result of the example is on screen
C3_ExampleCalculated == results # null /\ isExample(calcInputs)

\* C4: the Monte Carlo projections, the sequence scenarios and the sequence
\* projections are all present when the pre-retirement vehicle has a
\* volatility above 0 and all absent when it has not, whatever the
\* post-retirement vehicle.
C4_RiskOutputsWithVolatility ==
  results # null =>
    IF FGt(calcVehicle.volatility, Zero)
    THEN /\ results.monteCarloProjections # undefined
         /\ results.sequenceScenarios # undefined
         /\ results.sequenceProjections # undefined
    ELSE /\ results.monteCarloProjections = undefined
         /\ results.sequenceScenarios = undefined
         /\ results.sequenceProjections = undefined

\* a result without the analyses, with a volatile post-retirement vehicle
C4_VolatileOnlyAfterRetirement ==
  /\ results # null
  /\ ~FGt(calcVehicle.volatility, Zero)
  /\ FGt(results.postRetirementVehicle.volatility, Zero)
  /\ results.monteCarloProjections = undefined

\* the sum of the first n numbers of a sequence
RECURSIVE sumOf(_, _)
sumOf(seq, n) == IF n = 0 THEN Zero ELSE FAdd(sumOf(seq, n - 1), seq[n])

meanOf(seq) == FDiv(sumOf(seq, Len(seq)), Num(Len(seq)))

\* C5: the mean of the pre-retirement returns of the bestCase, worstCase and
\* average sequences is the nominal pre-retirement return, within 0.000001.
C5_SequencesShareTheMean ==
  (results # null /\ results.sequenceScenarios # undefined) =>
    \A k \in {1, 2, 4} :
      FLe(FAbs(FSub(meanOf(results.sequenceScenarios[k].preRetirement),
                    FDiv(results.sequenceScenarios[k].preRetirementReturnRate, Num(100)))),
          Norm(1, -6))

\* the value of scenario k in a row of the sequence projections
scenarioValue(row, k) ==
  CASE k = 1 -> row.bestCase [] k = 2 -> row.worstCase [] k = 3 -> row.earlyBear
    [] OTHER -> row.average

\* C6: a scenario's survivalYears is the retirement duration exactly when its
\* value is above 0 after each of the drawdown years.
C6_SurvivalIffNeverDepleted ==
  (results # null /\ results.sequenceScenarios # undefined) =>
    \A k \in 1..4 :
      (results.sequenceScenarios[k].survivalYears = retirementDuration)
        <=> \A i \in 1..retirementDuration :
              FGt(scenarioValue(results.sequenceProjections[results.yearsUntilRetirement + 1 + i], k),
                  Zero)

\* the estimate of the corpus by the withdrawal rate is a number: the income
\* needed at retirement is finite, and is not 0 over a withdrawal rate of 0
corpusIsDefined ==
  /\ isFinite(results.annualRetirementIncome)
  /\ ~(/\ ~FGt(results.annualRetirementIncome, Zero)
       /\ ~FLt(results.annualRetirementIncome, Zero)
       /\ ~FGt(results.safeWithdrawalRate, Zero)
       /\ ~FLt(results.safeWithdrawalRate, Zero))

\* C7, as amended: when the corpus estimate is a number, every row of the
\* post-retirement projections has a portfolio value of 0 or more.
C7_PortfolioNeverNegativeWhenDefined ==
  (results # null /\ corpusIsDefined) =>
    \A i \in 1..Len(results.postRetirementProjections) :
      FGe(results.postRetirementProjections[i].portfolioValue, Zero)

\* C7, as stated: every row of the post-retirement projections has a
\* portfolio value of 0 or more, for every accepted input.
C7_PortfolioNeverNegative ==
  results # null =>
    \A i \in 1..Len(results.postRetirementProjections) :
      FGe(results.postRetirementProjections[i].portfolioValue, Zero)

\* a portfolio that ran out during retirement: a row above 0 followed by a
\* row held at 0
C7_Depleted ==
  /\ results # null
  /\ corpusIsDefined
  /\ \E i \in 2..Len(results.postRetirementProjections) :
       /\ FGt(results.postRetirementProjections[i - 1].portfolioValue, Zero)
       /\ results.postRetirementProjections[i].portfolioValue = Zero

\* C8: in every row of the Monte Carlo projections the percentiles are in
\* order: p10 <= p25 <= p50 <= p75 <= p90.
C8_PercentilesInOrder ==
  (results # null /\ results.monteCarloProjections # undefined) =>
    \A i \in 1..Len(results.monteCarloProjections) :
      LET row == results.monteCarloProjections[i]
      IN FLe(row.p10, row.p25) /\ FLe(row.p25, row.p50)
         /\ FLe(row.p50, row.p75) /\ FLe(row.p75, row.p90)

\* C9, as amended: when the corpus estimate is a number, the target corpus is
\* at least the income needed divided by the withdrawal rate, and at least the
\* income needed times the annuity factor.
C9_CorpusAtLeastBothEstimatesWhenDefined ==
  (results # null /\ corpusIsDefined) =>
    /\ FGe(results.targetRetirementCorpus,
           FDiv(results.annualRetirementIncome, results.safeWithdrawalRate))
    /\ FGe(results.targetRetirementCorpus,
           FMul(results.annualRetirementIncome, pvFactorOf(calcVehicle.returnRate)))

\* C9, as stated: for every accepted input the target corpus is at least the
\* income needed divided by the withdrawal rate, and at least the income
\* needed times the annuity factor.
C9_CorpusAtLeastBothEstimates ==
  results # null =>
    /\ FGe(results.targetRetirementCorpus,
           FDiv(results.annualRetirementIncome, results.safeWithdrawalRate))
    /\ FGe(results.targetRetirementCorpus,
           FMul(results.annualRetirementIncome, pvFactorOf(calcVehicle.returnRate)))

\* a result whose annuity estimate is the larger of the two
C9_AnnuityEstimateLarger ==
  /\ results # null
  /\ corpusIsDefined
  /\ FGt(FMul(results.annualRetirementIncome, pvFactorOf(calcVehicle.returnRate)),
         FDiv(results.annualRetirementIncome, results.safeWithdrawalRate))

\* the outputs that take no random number
deterministicOutputs(r) ==
  <<r.targetRetirementCorpus, r.annualInvestmentNeeded, r.yearlyProjections,
    r.postRetirementProjections>>

\* C10: a run on the fields the run before it read leaves the target corpus,
\* the contribution and both projection tables as they were.
C10_SameInputsSameOutputs ==
  [][(results # null /\ results' # null /\ calcInputs' = calcInputs)
       => deterministicOutputs(results') = deterministicOutputs(results)]_vars

\* C11: isUnrealistic is true exactly when the contribution is above 75% of
\* the income, and incomePercentageNeeded is the contribution divided by the
\* income, times 100: in every result on screen, and in the income test on
\* its own, where a contribution of exactly 75% is not unrealistic.
C11_UnrealisticAbove75Percent ==
  /\ results # null =>
       /\ (results.isUnrealistic
             <=> FGt(results.annualInvestmentNeeded,
                     FMul(Norm(75, -2), parseFloat(calcInputs.currentIncome))))
       /\ results.incomePercentageNeeded
            = FMul(FDiv(results.annualInvestmentNeeded, parseFloat(calcInputs.currentIncome)),
                   Num(100))
  /\ returned # null =>
       /\ (returned.isUnrealistic
             <=> FGt(call.annualInvestment, FMul(Norm(75, -2), call.income)))
       /\ returned.incomePercentageNeeded
            = FMul(FDiv(call.annualInvestment, call.income), Num(100))

\* the income test has answered for a contribution of exactly 75% of the income
C11_ExactlyThreeQuarters ==
  /\ returned # null
  /\ call.annualInvestment = Num(39000)
  /\ call.income = Num(52000)
  /\ returned.isUnrealistic = FALSE

\* a call of generateSequence for a type has returned
sequenceOf(type) == returned # null /\ call # null /\ call.fn = "generateSequence" /\ call.type = type

\* C12: the mean of the earlyBear sequence, in percent, is within the
\* volatility of the base return.
C12_EarlyBearMeanWithinVolatility ==
  sequenceOf("earlyBear") =>
    FLe(FAbs(FSub(FMul(meanOf(returned.returns), Num(100)), call.baseReturn)), call.vol)

\* an earlyBear sequence of one year, a bear year, with a volatility above 0
C12_SingleBearYear ==
  /\ sequenceOf("earlyBear")
  /\ call.years = 1
  /\ FGt(call.vol, Zero)
  /\ FLt(FMul(meanOf(returned.returns), Num(100)), call.baseReturn)

\* the returns of a bear year and of a bull year of earlyBear
bearReturn == FDiv(FSub(call.baseReturn, FMul(call.vol, Norm(8, -1))), Num(100))
bullReturn == FDiv(FAdd(call.baseReturn, FMul(call.vol, Norm(4, -1))), Num(100))

\* the earlyBear sequence starts with k bear years and goes on with bull years
bearYears(k) ==
  /\ Len(returned.returns) = call.years
  /\ \A j \in 1..call.years :
       returned.returns[j] = IF j <= k THEN bearReturn ELSE bullReturn

\* C17, as amended: the earlyBear sequence of n years has a bear year for
\* every i = 0, 1, ... below n * 0.3, that is (3n + 9) div 10 of them, the
\* least whole number that is not below n * 0.3, and bull years after them.
C17_EarlyBearCeiling == sequenceOf("earlyBear") => bearYears((3 * call.years + 9) \div 10)

\* C17, as stated: the earlyBear sequence of n years has floor(n * 0.3) bear
\* years and bull years after them.
C17_EarlyBearFloor == sequenceOf("earlyBear") => bearYears((3 * call.years) \div 10)

\* an earlyBear sequence with one bear year more than floor(n * 0.3)
C17_OneMoreBearYear ==
  /\ sequenceOf("earlyBear")
  /\ FGt(call.vol, Zero)
  /\ call.years = 6
  /\ returned.returns[2] = bearReturn
  /\ returned.returns[3] = bullReturn

\* C18: the bestCase sequence rises from (base - volatility)/100 in its first
\* year to (base + volatility)/100 in its last, and the worstCase sequence
\* mirrors it: the two returns of a year add up to 2 * base / 100.
C18_BestCaseSpansVolatility ==
  sequenceOf("bestCase") =>
    LET best == returned.returns
        worst == generateSequence("worstCase", call.years, call.baseReturn, call.vol)
    IN /\ best[1] = FDiv(FSub(call.baseReturn, call.vol), Num(100))
       /\ best[call.years] = FDiv(FAdd(call.baseReturn, call.vol), Num(100))
       /\ \A j \in 1..(call.years - 1) : FLe(best[j], best[j + 1])
       /\ \A j \in 1..call.years :
            FLe(FAbs(FSub(FAdd(best[j], worst[j]),
                          FDiv(FMul(Num(2), call.baseReturn), Num(100)))),
                Norm(1, -6))

\* the years i (from 0) whose sequence projection is in the critical zone,
\* and those whose projection is the retirement year
criticalYears ==
  {i \in 0..(Len(results.sequenceProjections) - 1) :
     results.sequenceProjections[i + 1].isCriticalZone}
retirementYears ==
  {i \in 0..(Len(results.sequenceProjections) - 1) :
     results.sequenceProjections[i + 1].isRetirementYear}

\* C13, as amended: the critical zone is the years before the retirement
\* year, up to 5 of them: the 5 years before it when there are 5 or more,
\* all of them otherwise; the retirement year is the one row at index
\* yearsUntilRetirement; no row is both.
C13_CriticalZoneUpToFiveYears ==
  (results # null /\ results.sequenceProjections # undefined) =>
    LET y == results.yearsUntilRetirement
    IN /\ criticalYears = {i \in 0..(y - 1) : i >= y - 5}
       /\ Cardinality(criticalYears) = IF y < 5 THEN y ELSE 5
       /\ retirementYears = {y}
       /\ criticalYears \cap retirementYears = {}

\* C13, as stated: the critical zone is exactly 5 rows, those before the
\* retirement year; the retirement year is the one row at index
\* yearsUntilRetirement; no row is both.
C13_CriticalZoneFiveYears ==
  (results # null /\ results.sequenceProjections # undefined) =>
    LET y == results.yearsUntilRetirement
    IN /\ Cardinality(criticalYears) = 5
       /\ criticalYears = (y - 5)..(y - 1)
       /\ retirementYears = {y}
       /\ criticalYears \cap retirementYears = {}

\* sequence projections for a retirement one year away: a critical zone of
\* one row
C13_RetirementNextYear ==
  /\ results # null
  /\ results.sequenceProjections # undefined
  /\ results.yearsUntilRetirement = 1
  /\ criticalYears = {0}

\* The solver's guesses, followed from the first to the one returned.  A
\* trace is the guess reached, the number j of updates behind it, whether
\* the guess returned has been reached (done), and whether all went as
\* stated (ok): every guess before the last is 1000 or more from the target
\* and is adjusted by a tenth of the difference per year; the last is the
\* contribution of the result, and is within 1000 of the target unless 100
\* updates were made.
solverTraceAdjust(t, difference) ==
  IF t.j = iterations
  THEN [t EXCEPT !.done = TRUE,
                 !.ok = /\ t.ok
                        /\ t.guess = results.annualInvestmentNeeded
                        /\ (iterations = maxIterations \/ FLt(FAbs(difference), Num(1000)))]
  ELSE [guess |-> FAdd(t.guess, FDiv(FDiv(difference, Num(results.yearsUntilRetirement)),
                                     Num(10))),
        j |-> t.j + 1,
        done |-> FALSE,
        ok |-> t.ok /\ ~FLt(FAbs(difference), Num(1000))]

solverTraceStep(t) ==
  IF t.done THEN t
  ELSE solverTraceAdjust(t,
         FSub(results.targetRetirementCorpus,
              testTotalValueOf(1, results.yearsUntilRetirement, t.guess,
                               FDiv(parseFloat(calcInputs.salaryGrowth), Num(100)),
                               calcVehicle.returnRate, Zero)))

RECURSIVE solverTraceLoop(_, _)
solverTraceLoop(t, n) ==
  IF n = 0 THEN t
  ELSE IF n = 1 THEN solverTraceStep(t)
  ELSE LET h == solverTraceLoop(t, n \div 2) IN
       IF h.done THEN h ELSE solverTraceLoop(h, n - n \div 2)

solverTrace ==
  solverTraceLoop([guess |-> FDiv(FDiv(results.targetRetirementCorpus,
                                       Num(results.yearsUntilRetirement)), Norm(15, -1)),
                   j |-> 0, done |-> FALSE, ok |-> TRUE],
                  maxIterations + 1)

\* C14: the solver ends after at most 100 updates of its guess, at the first
\* guess that is within 1000 of the target, and an accepted run has a
\* result, with the last guess as its contribution, and no alert, also
\* when the 100 updates were made.
C14_SolverStopsAtFirstFitOrCap ==
  /\ iterations <= maxIterations
  /\ calcInputs # null =>
       /\ results # null
       /\ alerted = ""
       /\ solverTrace.done
       /\ solverTrace.ok

\* a run on a target that is a number, ended by the 100th update
C14_CapReached ==
  /\ results # null
  /\ iterations = maxIterations
  /\ isFinite(results.targetRetirementCorpus)
  /\ alerted = ""

\* C15: yearlyProjections has yearsUntilRetirement + 1 rows; the first has
\* no contribution and no value; in every row the cumulative contribution is
\* the sum of the annual contributions so far (the one of the row before plus
\* the row's own) and the investment returns are the total value less the
\* cumulative contribution; totalContributions and totalReturns are the last
\* row's cumulative contribution and investment returns.
C15_YearlyProjectionsAddUp ==
  results # null =>
    LET rows == results.yearlyProjections
    IN /\ Len(rows) = results.yearsUntilRetirement + 1
       /\ rows[1].annualContribution = Zero
       /\ rows[1].cumulativeContribution = Zero
       /\ rows[1].totalValue = Zero
       /\ \A i \in 2..Len(rows) :
            rows[i].cumulativeContribution
              = FAdd(rows[i - 1].cumulativeContribution, rows[i].annualContribution)
       /\ \A i \in 1..Len(rows) :
            rows[i].investmentReturns
              = FSub(rows[i].totalValue, rows[i].cumulativeContribution)
       /\ results.totalContributions = rows[Len(rows)].cumulativeContribution
       /\ results.totalReturns = rows[Len(rows)].investmentReturns

\* a table of 17 rows with contributions paid in and returns earned on them
C15_SixteenYearsOfContributions ==
  /\ results # null
  /\ Len(results.yearlyProjections) = 17
  /\ FGt(results.totalContributions, Zero)
  /\ FGt(results.totalReturns, Zero)

\* C16: no figure and no chart series of the results view is NaN or infinite,
\* whatever the result: the key figures, the growth chart, the drawdown
\* chart and the pie chart.
C16_NothingNonFiniteDisplayed ==
  results # null =>
    /\ \A i \in 1..Len(keyFigures(results)) : isFinite(keyFigures(results)[i].amount)
    /\ \A i \in 1..Len(growthChartData(results)) :
         /\ isFinite(growthChartData(results)[i].Contributions)
         /\ isFinite(growthChartData(results)[i].Returns)
         /\ isFinite(growthChartData(results)[i].TotalValue)
    /\ \A i \in 1..Len(postRetirementChartData(results)) :
         /\ isFinite(postRetirementChartData(results)[i].PortfolioValue)
         /\ isFinite(postRetirementChartData(results)[i].Withdrawal)
    /\ \A i \in 1..2 : isFinite(contributionsVsReturns(results)[i].value)

\* C19: each of the four scenarios has the same post-retirement returns: one
\* for each year of the retirement duration, each the post-retirement
\* vehicle's return rate over 100, whatever the volatilities; and a year's
\* value in the drawdown follows from the value of the year before, the
\* year's withdrawal and that rate alone.
C19_SameSteadyReturnsAfterRetirement ==
  (results # null /\ results.sequenceScenarios # undefined) =>
    \A k \in 1..4 :
      /\ Len(results.sequenceScenarios[k].postRetirement) = retirementDuration
      /\ \A j \in 1..retirementDuration :
           results.sequenceScenarios[k].postRetirement[j]
             = FDiv(results.postRetirementVehicle.returnRate, Num(100))
      /\ \A j \in 1..retirementDuration :
           LET before == scenarioValue(
                           results.sequenceProjections[results.yearsUntilRetirement + j], k)
               after == scenarioValue(
                          results.sequenceProjections[results.yearsUntilRetirement + j + 1], k)
           IN FGt(before, Zero) =>
                after = OrZero(FMax(Zero,
                          FMul(FSub(before,
                                    FMul(results.annualRetirementIncome,
                                         FPow(FAdd(Num(1), inflationRate), j - 1))),
                               FAdd(Num(1),
                                    FDiv(results.postRetirementVehicle.returnRate, Num(100))))))

\* scenarios for a volatile vehicle before retirement and another volatile
\* vehicle after it
C19_VolatileBeforeAndAfter ==
  /\ results # null
  /\ results.sequenceScenarios # undefined
  /\ FGt(results.postRetirementVehicle.volatility, Zero)
  /\ results.postRetirementVehicle.returnRate # calcVehicle.returnRate

\* the fields of the latest accepted run as numbers, and the income needed
\* at retirement that follows from them:
\* income * (1 + salaryGrowth)^n * replacementRatio * 1.03^n
calcYears == IntOf(parseInt(calcInputs.retirementAge)) - IntOf(parseInt(calcInputs.currentAge))
calcIncomeAtRetirement ==
  FMul(FMul(FMul(parseFloat(calcInputs.currentIncome),
                 FPow(FAdd(Num(1), FDiv(parseFloat(calcInputs.salaryGrowth), Num(100))),
                      calcYears)),
            FDiv(parseFloat(calcInputs.retirementIncomePercent), Num(100))),
       FPow(Norm(103, -2), calcYears))

\* the annuity factor for a return rate in percent: over 40 years at the
\* return less 3%, or 40 when that is not above 0
annuityFactor(returnRate) ==
  LET realReturn == FSub(FDiv(returnRate, Num(100)), Norm(3, -2))
  IN IF FGt(realReturn, Zero)
     THEN FDiv(FSub(Num(1), FDiv(Num(1), FPowN(FAdd(Num(1), realReturn), 40))), realReturn)
     ELSE Num(40)

\* C20: the target corpus is the larger of F / safeWithdrawalRate and
\* F * factor, for F the income needed at retirement and factor the annuity
\* factor of the pre-retirement vehicle's return.
C20_TargetCorpusIsLargerEstimate ==
  results # null =>
    /\ results.yearsUntilRetirement = calcYears
    /\ results.targetRetirementCorpus
         = FMax(FDiv(calcIncomeAtRetirement,
                     FDiv(parseFloat(calcInputs.safeWithdrawalRate), Num(100))),
                FMul(calcIncomeAtRetirement, annuityFactor(calcVehicle.returnRate)))

\* a result whose estimate by the withdrawal rate is the larger of the two
C20_WithdrawalEstimateLarger ==
  /\ results # null
  /\ isFinite(results.targetRetirementCorpus)
  /\ FGt(FDiv(calcIncomeAtRetirement,
              FDiv(parseFloat(calcInputs.safeWithdrawalRate), Num(100))),
         FMul(calcIncomeAtRetirement, annuityFactor(calcVehicle.returnRate)))

\* the values of year j - 1 of the simulated paths, in the order of the paths
yearColumn(j) == [sim \in 1..numSimulations |-> returned.simulations[sim][j]]

\* v stands at index k (from 0) of the values sorted ascending by a - b: v is
\* one of them, at most k of them come before it, and more than k do not come
\* after it
atSortedIndex(values, v, k) ==
  /\ \E i \in 1..Len(values) : values[i] = v
  /\ Cardinality({i \in 1..Len(values) : FLt(compareFn(values[i], v), Zero)}) <= k
  /\ Cardinality({i \in 1..Len(values) : ~FGt(compareFn(values[i], v), Zero)}) > k

\* C21: in each year's row, p10, p25, p50, p75 and p90 are the elements at
\* the indices floor(n * 0.10), floor(n * 0.25), floor(n * 0.50),
\* floor(n * 0.75) and floor(n * 0.90) of the year's n path values sorted
\* ascending, and the rows are the same when the paths are pushed in another
\* order.
C21_PercentilesBySortedIndex ==
  (returned # null /\ call # null /\ call.fn = "runMonteCarloSimulation") =>
    /\ Len(returned.projections) = call.yearsUntilRetirement + 1
    /\ \A j \in 1..Len(returned.projections) :
         /\ atSortedIndex(yearColumn(j), returned.projections[j].p10, (numSimulations * 10) \div 100)
         /\ atSortedIndex(yearColumn(j), returned.projections[j].p25, (numSimulations * 25) \div 100)
         /\ atSortedIndex(yearColumn(j), returned.projections[j].p50, (numSimulations * 50) \div 100)
         /\ atSortedIndex(yearColumn(j), returned.projections[j].p75, (numSimulations * 75) \div 100)
         /\ atSortedIndex(yearColumn(j), returned.projections[j].p90, (numSimulations * 90) \div 100)
    /\ returned.reordered = returned.projections

\* paths that were not simulated in ascending order of their value at
\* retirement, with distinct percentiles in that year
C21_PathsOutOfOrder ==
  /\ returned # null /\ call # null /\ call.fn = "runMonteCarloSimulation"
  /\ LET j == call.yearsUntilRetirement + 1
     IN /\ \E a, b \in 1..numSimulations : a < b /\ FGt(yearColumn(j)[a], yearColumn(j)[b])
        /\ FLt(returned.projections[j].p10, returned.projections[j].p25)
        /\ FLt(returned.projections[j].p75, returned.projections[j].p90)
        /\ reorder(returned.simulations, call.order) # returned.simulations

\* C22: the Monte Carlo projections have a row for each year from 0 to
\* yearsUntilRetirement; the deterministic value of a row is the total value
\* of the same row of yearlyProjections; every row's target is the target
\* corpus of the result; and in the first row the five percentiles and the
\* deterministic value are 0.
C22_DeterministicMatchesYearly ==
  (results # null /\ results.monteCarloProjections # undefined) =>
    /\ Len(results.monteCarloProjections) = results.yearsUntilRetirement + 1
    /\ Len(results.yearlyProjections) = results.yearsUntilRetirement + 1
    /\ \A k \in 1..(results.yearsUntilRetirement + 1) :
         /\ results.monteCarloProjections[k].deterministic
              = results.yearlyProjections[k].totalValue
         /\ results.monteCarloProjections[k].target = results.targetRetirementCorpus
    /\ results.monteCarloProjections[1].p10 = Zero
    /\ results.monteCarloProjections[1].p25 = Zero
    /\ results.monteCarloProjections[1].p50 = Zero
    /\ results.monteCarloProjections[1].p75 = Zero
    /\ results.monteCarloProjections[1].p90 = Zero
    /\ results.monteCarloProjections[1].deterministic = Zero

\* Monte Carlo projections over 16 years whose deterministic value grows
\* from year to year up to a last value above 0 that no percentile equals
C22_SixteenDeterministicYears ==
  /\ results # null
  /\ results.monteCarloProjections # undefined
  /\ results.yearsUntilRetirement = 16
  /\ \A k \in 2..17 : FGt(results.monteCarloProjections[k].deterministic,
                          results.monteCarloProjections[k - 1].deterministic)
  /\ results.monteCarloProjections[17].deterministic # results.monteCarloProjections[17].p50

\* the drawdown table that the loop of postRetirementProjections gives when
\* it starts from the value accumulated at retirement, the total value of the
\* last row of yearlyProjections
drawdownFromAccumulated ==
  postRetirementProjectionsOf(lastYearly.totalValue, results.annualRetirementIncome,
                              results.postRetirementVehicle.returnRate,
                              results.yearsUntilRetirement, 0, 0)

\* C23, as amended: the value of the Steady Average Returns scenario at every
\* index k in 0..yearsUntilRetirement is the total value of row k of
\* yearlyProjections, with 0 in the place of NaN; at index
\* yearsUntilRetirement + j, j in 1..40, it is the portfolio value of row j of
\* the drawdown table started from the accumulated value, with 0 in the
\* place of NaN.
C23_AverageFollowsAccumulatedValue ==
  (results # null /\ results.sequenceProjections # undefined) =>
    /\ Len(results.sequenceProjections) = results.yearsUntilRetirement + retirementDuration + 1
    /\ \A k \in 0..results.yearsUntilRetirement :
         results.sequenceProjections[k + 1].average
           = OrZero(results.yearlyProjections[k + 1].totalValue)
    /\ \A j \in 1..retirementDuration :
         results.sequenceProjections[results.yearsUntilRetirement + 1 + j].average
           = OrZero(drawdownFromAccumulated[j + 1].portfolioValue)

\* C23, as stated: the value of the Steady Average Returns scenario at every
\* index k in 0..yearsUntilRetirement is the total value of row k of
\* yearlyProjections, and at index yearsUntilRetirement + j, j in 1..40, the
\* portfolio value of row j of postRetirementProjections.
C23_AverageReproducesBothProjections ==
  (results # null /\ results.sequenceProjections # undefined) =>
    /\ \A k \in 0..results.yearsUntilRetirement :
         results.sequenceProjections[k + 1].average = results.yearlyProjections[k + 1].totalValue
    /\ \A j \in 1..retirementDuration :
         results.sequenceProjections[results.yearsUntilRetirement + 1 + j].average
           = results.postRetirementProjections[j + 1].portfolioValue

\* a run whose solver stopped within 1000 of the target corpus but not on it:
\* the scenario starts its drawdown from the accumulated value, the table of
\* postRetirementProjections from the target corpus, and they differ after a
\* year of withdrawal
C23_AccumulatedOffTarget ==
  /\ results # null
  /\ results.sequenceProjections # undefined
  /\ iterations < maxIterations
  /\ isFinite(lastYearly.totalValue)
  /\ lastYearly.totalValue # results.targetRetirementCorpus
  /\ results.sequenceProjections[results.yearsUntilRetirement + 1].average = lastYearly.totalValue
  /\ FGt(results.sequenceProjections[results.yearsUntilRetirement + 2].average, Zero)
  /\ results.sequenceProjections[results.yearsUntilRetirement + 2].average
       # results.postRetirementProjections[2].portfolioValue

\* the balances of a call of simulateFullCycle during the drawdown, before
\* any floor: the value accumulated at retirement, then the balance after
\* each of the first n years of withdrawal
RECURSIVE drawdownBalances(_)
drawdownBalances(n) ==
  IF n = 0 THEN <<returned.values[call.yearsUntilRetirement + 1]>>
  ELSE LET b == drawdownBalances(n - 1)
       IN Append(b, FMul(FSub(b[n], FMul(call.annualRetirementIncome,
                                         FPow(FAdd(Num(1), call.inflationRate), n - 1))),
                         FAdd(Num(1), FDiv(call.postRetirementReturn, Num(100)))))

\* the years of the drawdown, from 1, that ended with a balance of 0 or less
depletedYears(b) == {j \in 1..retirementDuration : FLe(b[j + 1], Zero)}

\* C24: survivalYears lies in 0..retirementDuration; when some year of the
\* drawdown ended with a balance of 0 or less, it is the number of years
\* that ended with a balance above 0 before the first such year (0 when the
\* first year of withdrawal is that year); otherwise it is retirementDuration.
\* The values returned for the drawdown are these balances, floored at 0.
C24_SurvivalYearsBeforeFirstDepletion ==
  (returned # null /\ call # null /\ call.fn = "simulateFullCycle") =>
    LET b == drawdownBalances(retirementDuration)
    IN /\ returned.survivalYears \in 0..retirementDuration
       /\ Len(returned.values) = call.yearsUntilRetirement + retirementDuration + 1
       /\ \A j \in 1..retirementDuration :
            returned.values[call.yearsUntilRetirement + 1 + j] = FMax(Zero, b[j + 1])
       /\ IF depletedYears(b) = {} THEN returned.survivalYears = retirementDuration
          ELSE \E first \in depletedYears(b) :
                 /\ \A j \in depletedYears(b) : first <= j
                 /\ returned.survivalYears
                      = Cardinality({j \in 1..(first - 1) : FGt(b[j + 1], Zero)})

\* a cycle that reached retirement with money and lost it all in the first
\* year of withdrawal
C24_DepletedInFirstYear ==
  /\ returned # null /\ call # null /\ call.fn = "simulateFullCycle"
  /\ FGt(returned.values[call.yearsUntilRetirement + 1], Zero)
  /\ returned.values[call.yearsUntilRetirement + 2] = Zero
  /\ returned.survivalYears = 0

\* C25: the result on screen changes only in a press of Calculate that
\* passes validation, which stores the result of the fields as they are; a
\* step that edits a field or folds the advanced settings leaves the result
\* as it is, and so does a press of Calculate that is rejected.
C25_ResultsChangeOnlyOnAcceptedCalculate ==
  [][/\ (results' # results)
          => (calculateRetirement /\ alerted' = "" /\ calcInputs' = inputs)
     /\ (fields' # fields \/ advancedOpen' # advancedOpen) => results' = results
     /\ (calculateRetirement /\ alerted' # "") => results' = results]_vars

\* a result on screen after the fields were edited and a press of Calculate
\* on the edited fields was rejected
C25_ResultKeptThroughEditAndRejection ==
  /\ results # null
  /\ alerted # ""
  /\ inputs # calcInputs

\* C26: when the sequence analysis has run on a contribution of 0 or more,
\* the value at the retirement year (index yearsUntilRetirement) under the
\* bestCase scenario is at least the value under the worstCase scenario.
C26_BestCaseAccumulatesMost ==
  (/\ results # null
   /\ results.sequenceProjections # undefined
   /\ results.yearsUntilRetirement >= 1
   /\ FGe(results.annualInvestmentNeeded, Zero)
   /\ FGe(parseFloat(calcInputs.salaryGrowth), Zero)) =>
    FGe(results.sequenceProjections[results.yearsUntilRetirement + 1].bestCase,
        results.sequenceProjections[results.yearsUntilRetirement + 1].worstCase)

\* C27: the final value of every scenario is 0 or more, it is above 0 exactly
\* when survivalYears is the retirement duration, and so the card of a
\* scenario shows success exactly when the scenario ends with money left.
C27_SuccessIffMoneyLeft ==
  (results # null /\ results.sequenceScenarios # undefined) =>
    \A k \in 1..4 :
      /\ FGe(results.sequenceScenarios[k].finalValue, Zero)
      /\ FGt(results.sequenceScenarios[k].finalValue, Zero)
           <=> results.sequenceScenarios[k].survivalYears = retirementDuration
      /\ isSuccess(results.sequenceScenarios[k], results.retirementDuration)
           <=> FGt(results.sequenceScenarios[k].finalValue, Zero)

\* the rows of sequenceProjections for the years of the drawdown, from 1
drawdownRow(j) == results.sequenceProjections[results.yearsUntilRetirement + 1 + j]

\* C28: once the portfolio value recorded for a year of the drawdown is 0,
\* the value recorded for every later year is 0: in postRetirementProjections
\* and, when the sequence analysis has run, in each of the four scenarios.
C28_DepletionIsAbsorbing ==
  results # null =>
    /\ \A i, j \in 1..retirementDuration :
         (i < j /\ results.postRetirementProjections[i + 1].portfolioValue = Zero)
           => results.postRetirementProjections[j + 1].portfolioValue = Zero
    /\ results.sequenceProjections # undefined =>
         \A k \in 1..4 : \A i, j \in 1..retirementDuration :
           (i < j /\ scenarioValue(drawdownRow(i), k) = Zero)
             => scenarioValue(drawdownRow(j), k) = Zero

\* a run whose drawdown table and whose bestCase scenario both have money
\* after the first year of withdrawal and none in the last two years
C28_DepletedBeforeTheEnd ==
  /\ results # null
  /\ results.sequenceProjections # undefined
  /\ FGt(results.postRetirementProjections[2].portfolioValue, Zero)
  /\ results.postRetirementProjections[retirementDuration].portfolioValue = Zero
  /\ results.postRetirementProjections[retirementDuration + 1].portfolioValue = Zero
  /\ FGt(scenarioValue(drawdownRow(1), 1), Zero)
  /\ scenarioValue(drawdownRow(retirementDuration - 1), 1) = Zero
  /\ scenarioValue(drawdownRow(retirementDuration), 1) = Zero

\* C29: while a result is on screen, the inputs handed to the results view
\* are those the result was computed from: the retirement age less the
\* current age is the result's yearsUntilRetirement, and the income, the
\* vehicle, the replacement ratio and the withdrawal rate are those of the
\* run.
C29_ViewInputsAreThoseOfTheResult ==
  results # null =>
    /\ FSub(RetirementResultsInputs.retirementAge, RetirementResultsInputs.currentAge)
         = Num(results.yearsUntilRetirement)
    /\ RetirementResultsInputs.currentIncome = parseFloat(calcInputs.currentIncome)
    /\ RetirementResultsInputs.investmentVehicle = calcVehicle
    /\ RetirementResultsInputs.replacementRatio = results.replacementRatio
    /\ RetirementResultsInputs.safeWithdrawalRate = results.safeWithdrawalRate

\* The solver's errors, followed from the first guess on.  t.guess is the
\* guess reached after t.j updates, t.last the error |target - total| of the
\* guess before it, and t.shrinking whether each error so far was a number
\* below the error before it.
solverErrorStep(t) ==
  LET difference == FSub(results.targetRetirementCorpus,
                         testTotalValueOf(1, results.yearsUntilRetirement, t.guess,
                                          FDiv(parseFloat(calcInputs.salaryGrowth), Num(100)),
                                          calcVehicle.returnRate, Zero))
  IN [guess |-> FAdd(t.guess, FDiv(FDiv(difference, Num(results.yearsUntilRetirement)),
                                   Num(10))),
      j |-> t.j + 1,
      last |-> FAbs(difference),
      shrinking |-> /\ t.shrinking
                    /\ ~isNaN(difference)
                    /\ (t.j = 0 \/ FLt(FAbs(difference), t.last))]

\* n guesses on from t; an error that is NaN is followed by NaN alone
RECURSIVE solverErrorLoop(_, _)
solverErrorLoop(t, n) ==
  IF n = 0 THEN t
  ELSE IF n = 1 THEN solverErrorStep(t)
  ELSE LET h == solverErrorLoop(t, n \div 2) IN
       IF isNaN(h.last) THEN h ELSE solverErrorLoop(h, n - n \div 2)

\* the errors of the guesses the solver of the latest run went through, the
\* one it returned included
solverErrors ==
  solverErrorLoop([guess |-> FDiv(FDiv(results.targetRetirementCorpus,
                                       Num(results.yearsUntilRetirement)), Norm(15, -1)),
                   j |-> 0, last |-> Zero, shrinking |-> TRUE],
                  iterations + 1)

\* C30: in every accepted run the error |target - total| of each guess of the
\* solver is below the error of the guess before it, the contribution
\* returned is above 0, and the solver leaves through the tolerance test:
\* the error of the guess returned is below 1000.
C30_SolverConvergesWithinTolerance ==
  results # null =>
    /\ solverErrors.shrinking
    /\ FGt(results.annualInvestmentNeeded, Zero)
    /\ FLt(solverErrors.last, Num(1000))

====
